---- MODULE Spec2Model ----
(***************************************************************************)
(* A model of py_linq (src/py_linq/py_linq.py): the Enumerable class, its   *)
(* operator subclasses and the itertools objects they hold.                 *)
(*                                                                          *)
(* The program's state is a heap of Enumerable nodes and of iterator        *)
(* objects (list iterators, itertools.cycle / chain / reversed objects and  *)
(* the generator frames of the __iter__ methods).  Every method is an       *)
(* operator that takes the heap and returns the heap it leaves behind with  *)
(* its result: [m |-> heap, v |-> value, st |-> "ok" or the exception].     *)
(* A generator frame is resumed by next(): it runs to its next yield.       *)
(***************************************************************************)
EXTENDS Integers, Sequences, FiniteSets, TLC

\* ------------------------------------------------------------------ bounds
\* Longest source list the caller constructs an Enumerable from.
MaxLen == 3
\* Largest element value; elements are the integers 0..MaxElem.
MaxElem == 1
\* Number of operations the caller performs after construction.
MaxOps == 2
\* A traversal that yields more elements than this, or a loop that spins
\* more often than this without yielding, never ends (the cycles are periodic).
MaxYield == 12

\* ------------------------------------------------------------------ values
\* Python's None, a value outside the element range.
None == -1

Elems == 0..MaxElem

\* Every Python value of the model is an integer, so that any two can be
\* compared: the elements and None as themselves, a reference to an Enumerable
\* object (a Grouping that is an element) as 100 + its id, and a 2-tuple
\* (a, b) of such values as 1000 + 200 * (a + 1) + (b + 1).
Ref(n) == 100 + n
Deref(v) == v - 100
Tuple2(a, b) == 1000 + 200 * (a + 1) + (b + 1)
Fst(v) == ((v - 1000) \div 200) - 1
Snd(v) == ((v - 1000) % 200) - 1

RECURSIVE ListsUpTo(_)
\* All lists over Elems of length at most n.
ListsUpTo(n) ==
  IF n = 0 THEN {<<>>}
  ELSE LET shorter == ListsUpTo(n - 1)
       IN shorter \cup {Append(l, x) : l \in {k \in shorter : Len(k) = n - 1}, x \in Elems}

Min2(a, b) == IF a < b THEN a ELSE b

\* ------------------------------------------------------------------ results
\* A call that returned v.
Ok(m, v) == [m |-> m, v |-> v, st |-> "ok"]
\* A call that raised the exception st ("Hang": it never returns).
Raise(m, st) == [m |-> m, v |-> None, st |-> st]

\* ------------------------------------------------------------------ heap
\* An iterator object; the fields a kind does not use keep these values.
\*   k    "list" | "cycle" | "chain" | "reversed" | "gen"
\*   node the Enumerable a generator frame or a reversed object belongs to
\*   xs   the list a list iterator walks; the elements a cycle has saved;
\*        the operands of a chain
\*   i,j  positions / loop counters;  sub, sub2  the iterators it pulls from
\*   e    a local holding an element;  ok  the local `ok` of group_join
\*   pc   "new" (not started) | "yield" (suspended at a yield) | "done"
NoIt == [k |-> "none", node |-> 0, xs |-> <<>>, i |-> 0, j |-> 0,
         sub |-> 0, sub2 |-> 0, e |-> None, ok |-> None, pc |-> "new"]

\* A predicate: a lambda given by the set s of the values it accepts, or,
\* when frame > 0, the closure `lambda i: inner_key(i) == ok` over the
\* local `ok` of generator frame `frame`.
Lambda(s) == [frame |-> 0, s |-> s, key |-> 0]
NoPred == Lambda({})
\* No function passed: the parameter keeps its default None.
NoFunc == [Lambda({}) EXCEPT !.key = None]

\* An Enumerable object; the fields a class does not have keep these values.
\*   data       self._data when it is a list (src = 0)
\*   iterator   self._data when it is a single-pass iterator (an iterator id)
\*   src        self._data when it is an Enumerable (a node id)
\*   enumerable the second operand (self.enumerable / self.inner_enumerable)
\*   cycle      self._cycle (an iterator id; 0 when no method reads it)
\*   cycle2     JoinEnumerable.enumerable_cycle
\*   dict       self.union / self.grouping / self.set: <<key, value>> pairs
\*              in insertion order
\*   gkey       Grouping.key
NoNode == [kind |-> "none", data |-> <<>>, src |-> 0, enumerable |-> 0,
           n |-> 0, predicate |-> NoPred, key |-> 0, key2 |-> 0,
           key_funcs |-> <<>>, dict |-> <<>>, cycle |-> 0, cycle2 |-> 0,
           gkey |-> None, iterator |-> 0]

EmptyHeap == [nodes |-> <<>>, its |-> <<>>]

\* A new iterator object; v is its id.
AddIt(m, rec) == Ok([m EXCEPT !.its = Append(@, rec)], Len(m.its) + 1)
SetIt(m, it, rec) == [m EXCEPT !.its[it] = rec]
\* A new Enumerable object; v is its id.
AddNode(m, rec) == Ok([m EXCEPT !.nodes = Append(@, rec)], Len(m.nodes) + 1)
SetNode(m, n, rec) == [m EXCEPT !.nodes[n] = rec]

\* ------------------------------------------------------------------ lambdas
\* The key selectors the callers pass: 0 is the identity (the default
\* lambda x: x), j > 0 projects the j-th binary digit of the element.
RECURSIVE Pow2(_)
Pow2(j) == IF j = 0 THEN 1 ELSE 2 * Pow2(j - 1)
KeyOf(j, x) == IF j = 0 THEN x ELSE (x \div Pow2(j - 1)) % 2

\* predicate(x) for a predicate object p, on heap m.
PredHolds(m, p, x) ==
  IF p.frame = 0 THEN x \in p.s ELSE KeyOf(p.key, x) = m.its[p.frame].ok

\* ------------------------------------------------------------------ iterators
\* iter(xs) for a list xs.
iter_list(m, xs) == AddIt(m, [NoIt EXCEPT !.k = "list", !.xs = xs])
\* iter(e) for an Enumerable e: every __iter__ is a generator function, so the
\* call only creates the frame.
iter_node(m, n) == AddIt(m, [NoIt EXCEPT !.k = "gen", !.node = n])
\* iter(self._data) / iter(self.data).
iter_data(m, n) ==
  IF m.nodes[n].src = 0 THEN iter_list(m, m.nodes[n].data)
  ELSE iter_node(m, m.nodes[n].src)
\* itertools.cycle(it).
cycle(m, it) == AddIt(m, [NoIt EXCEPT !.k = "cycle", !.sub = it])
\* itertools.chain(a, b) for two Enumerables.
chain(m, a, b) == AddIt(m, [NoIt EXCEPT !.k = "chain", !.xs = <<a, b>>])

\* A generator frame suspended at a yield, with its locals as in frame s.
Yield(m, g, s, v) == Ok(SetIt(m, g, [s EXCEPT !.pc = "yield"]), v)
\* An unguarded next() inside a generator body: a StopIteration that escapes
\* it surfaces as RuntimeError (PEP 479).
Unguarded(r) == IF r.st = "StopIteration" THEN Raise(r.m, "RuntimeError") ELSE r

\* Every call on an object goes through one dispatcher, defined below once the
\* classes are: next(it), len(e) and e[index].
RECURSIVE call(_, _, _, _)
next(m, it) == call(m, "next", it, 0)
len(m, n) == call(m, "len", n, 0)
getitem(m, n, index) == call(m, "getitem", n, index)
to_list(m, n) == call(m, "to_list", n, 0)
count(m, n) == call(m, "count", n, 0)
element_at(m, n, index) == call(m, "element_at", n, index)
element_at_or_default(m, n, index) == call(m, "element_at_or_default", n, index)
all(m, n, predicate) == call(m, "all", n, predicate)
order_by(m, n, key, reverse) == call(m, "order_by", n, <<key, reverse>>)
then_by(m, n, func, reverse) == call(m, "then_by", n, <<func, reverse>>)
iter(m, n) == call(m, "iter", n, 0)
first_of(m, n, func) == call(m, "first", n, func)
first_or_default(m, n, func) == call(m, "first_or_default", n, func)
any(m, n, predicate) == call(m, "any", n, predicate)
single(m, n, predicate) == call(m, "single", n, predicate)
single_or_default(m, n, predicate) == call(m, "single_or_default", n, predicate)
sum(m, n) == call(m, "sum", n, 0)
aggregate(m, n, func, seed) == call(m, "aggregate", n, <<func, seed>>)

\* len(self.data).
len_data(m, n) ==
  IF m.nodes[n].src = 0 THEN Ok(m, Len(m.nodes[n].data)) ELSE len(m, m.nodes[n].src)

RECURSIVE drain(_, _, _)
\* Running iterator it to its end, the elements it yields appended to acc: the
\* loop of a list comprehension, of sum(1 for ...) or of sorted().
drain(m, it, acc) ==
  LET r == next(m, it) IN
  IF Len(acc) > MaxYield THEN Raise(m, "Hang")
  ELSE IF r.st = "ok" THEN drain(r.m, it, Append(acc, r.v))
  ELSE IF r.st = "StopIteration" THEN Ok(r.m, acc)
  ELSE r

\* [x for x in e] for an Enumerable e.
list_of(m, n) == LET a == iter_node(m, n) IN drain(a.m, a.v, <<>>)

\* itertools.cycle.__next__: first pass through the wrapped iterator, saving
\* what it yields; once that is exhausted, replay of the saved elements.
cycle_next(m, c) ==
  LET first == IF m.its[c].pc = "new" THEN next(m, m.its[c].sub) ELSE Raise(m, "StopIteration")
      s == first.m.its[c]
  IN IF first.st = "ok"
     THEN Ok(SetIt(first.m, c, [s EXCEPT !.xs = Append(@, first.v)]), first.v)
     ELSE IF first.st # "StopIteration" THEN first
     ELSE IF s.xs = <<>> THEN Raise(SetIt(first.m, c, [s EXCEPT !.pc = "replay"]), "StopIteration")
     ELSE Ok(SetIt(first.m, c, [s EXCEPT !.pc = "replay", !.i = (s.i + 1) % Len(s.xs)]),
             s.xs[s.i + 1])

RECURSIVE chain_next(_, _)
\* itertools.chain.__next__.
chain_next(m, c) ==
  LET s == m.its[c] IN
  IF s.sub = 0
  THEN IF s.j >= Len(s.xs) THEN Raise(m, "StopIteration")
       ELSE LET a == iter_node(m, s.xs[s.j + 1])
            IN chain_next(SetIt(a.m, c, [s EXCEPT !.sub = a.v, !.j = s.j + 1]), c)
  ELSE LET r == next(m, s.sub) IN
       IF r.st = "StopIteration" THEN chain_next(SetIt(r.m, c, [r.m.its[c] EXCEPT !.sub = 0]), c)
       ELSE r

\* reversed(e) for an Enumerable e, which has no __reversed__: the sequence
\* protocol, len(e) now and e[i] for i = len-1 .. 0 later.
reversed_node(m, n) ==
  LET l == len(m, n) IN
  IF l.st # "ok" THEN l
  ELSE AddIt(l.m, [NoIt EXCEPT !.k = "reversed", !.node = n, !.i = l.v - 1])

\* reversed.__next__ over an Enumerable.
reversed_next(m, c) ==
  LET s == m.its[c] IN
  IF s.i < 0 THEN Raise(m, "StopIteration")
  ELSE LET r == getitem(m, s.node, s.i) IN
       IF r.st = "ok" THEN Ok(SetIt(r.m, c, [r.m.its[c] EXCEPT !.i = s.i - 1]), r.v)
       ELSE IF r.st = "IndexError"
            THEN Raise(SetIt(r.m, c, [r.m.its[c] EXCEPT !.i = -1]), "StopIteration")
            ELSE r

RECURSIVE Reverse(_)
\* reversed(xs) for a list xs, as the list it walks.
Reverse(xs) == IF xs = <<>> THEN <<>> ELSE Append(Reverse(Tail(xs)), Head(xs))

\* reversed(self.data).
reversed_data(m, n) ==
  IF m.nodes[n].src = 0 THEN iter_list(m, Reverse(m.nodes[n].data))
  ELSE reversed_node(m, m.nodes[n].src)

\* ------------------------------------------------------------------ __iter__
\* Each body below takes a frame g that is new or suspended at its yield and
\* runs it to the next yield (Yield) or to its end (StopIteration).

\* Enumerable.__iter__, inherited by ReversedEnumerable, ConcatenateEnumerable,
\* SortedEnumerable and Grouping:
\*   i = 0; while i < len(self): yield next(self._cycle); i += 1
Enumerable_iter(m, g) ==
  LET i == IF m.its[g].pc = "new" THEN 0 ELSE m.its[g].i + 1
      l == len(m, m.its[g].node)
      r == Unguarded(next(l.m, l.m.nodes[m.its[g].node].cycle))
  IN IF l.st # "ok" THEN l
     ELSE IF ~(i < l.v) THEN Raise(l.m, "StopIteration")
     ELSE IF r.st # "ok" THEN r
     ELSE Yield(r.m, g, [r.m.its[g] EXCEPT !.i = i], r.v)

\* SelectEnumerable.__iter__: for e in self.data: yield self.func(e)
SelectEnumerable_iter(m, g) ==
  LET a == IF m.its[g].pc = "new" THEN iter_data(m, m.its[g].node) ELSE Ok(m, m.its[g].sub)
      r == next(a.m, a.v)
  IN IF r.st # "ok" THEN r
     ELSE Yield(r.m, g, [r.m.its[g] EXCEPT !.sub = a.v], KeyOf(r.m.nodes[m.its[g].node].key, r.v))

\* A faulty variant of the while loop of WhereEnumerable.__iter__: the first
\* element that fails the predicate ends the traversal.
WhereEnumerable_until(m, g, i) ==
  LET nd == m.nodes[m.its[g].node]
      l == len_data(m, m.its[g].node)
      r == Unguarded(next(l.m, nd.cycle))
  IN IF l.st # "ok" THEN l
     ELSE IF ~(i < l.v) THEN Raise(l.m, "StopIteration")
     ELSE IF r.st # "ok" THEN r
     ELSE IF PredHolds(r.m, nd.predicate, r.v)
          THEN Yield(r.m, g, [r.m.its[g] EXCEPT !.i = i], r.v)
          ELSE Raise(r.m, "StopIteration")

RECURSIVE WhereEnumerable_loop(_, _, _)
\* The while loop of WhereEnumerable.__iter__, entered with counter i.
WhereEnumerable_loop(m, g, i) ==
  LET nd == m.nodes[m.its[g].node]
      l == len_data(m, m.its[g].node)
      r == Unguarded(next(l.m, nd.cycle))
  IN IF l.st # "ok" THEN l
     ELSE IF ~(i < l.v) THEN Raise(l.m, "StopIteration")
     ELSE IF r.st # "ok" THEN r
     ELSE IF PredHolds(r.m, nd.predicate, r.v)
          THEN Yield(r.m, g, [r.m.its[g] EXCEPT !.i = i], r.v)
          ELSE WhereEnumerable_loop(r.m, g, i + 1)

\* WhereEnumerable.__iter__.
WhereEnumerable_iter(m, g) ==
  WhereEnumerable_loop(m, g, IF m.its[g].pc = "new" THEN 0 ELSE m.its[g].i + 1)

\* The selectors select_many is called with: 0 is lambda x: range(x), j > 0 is
\* lambda x: [x] * j.
SelectorOf(j, x) == IF j = 0 THEN [k \in 1..x |-> k - 1] ELSE [k \in 1..j |-> x]

RECURSIVE SelectManyEnumerable_loop(_, _, _, _)
\* The nested for loops of SelectManyEnumerable.__iter__: outer is the iterator
\* over self.data, inner the one over the current collection (0: none yet).
SelectManyEnumerable_loop(m, g, outer, inner) ==
  LET r == IF inner = 0 THEN Raise(m, "StopIteration") ELSE next(m, inner)
      o == next(r.m, outer)
      c == iter_list(o.m, SelectorOf(o.m.nodes[m.its[g].node].key, o.v))
  IN IF r.st = "ok" THEN Yield(r.m, g, [r.m.its[g] EXCEPT !.sub = outer, !.sub2 = inner], r.v)
     ELSE IF r.st # "StopIteration" THEN r
     ELSE IF o.st # "ok" THEN o
     ELSE SelectManyEnumerable_loop(c.m, g, outer, c.v)

\* SelectManyEnumerable.__iter__.
SelectManyEnumerable_iter(m, g) ==
  IF m.its[g].pc = "new"
  THEN LET a == iter_data(m, m.its[g].node) IN SelectManyEnumerable_loop(a.m, g, a.v, 0)
  ELSE SelectManyEnumerable_loop(m, g, m.its[g].sub, m.its[g].sub2)

RECURSIVE SkipEnumerable_loop_past(_, _, _, _)
\* A faulty variant of SkipEnumerable.__iter__: the element at index n is
\* skipped too (index > self.n).
SkipEnumerable_loop_past(m, g, sub, index) ==
  LET r == next(m, sub) IN
  IF r.st # "ok" THEN r
  ELSE IF index > r.m.nodes[m.its[g].node].n
       THEN Yield(r.m, g, [r.m.its[g] EXCEPT !.sub = sub, !.i = index + 1], r.v)
       ELSE SkipEnumerable_loop_past(r.m, g, sub, index + 1)

RECURSIVE SkipEnumerable_loop(_, _, _, _)
\* for index, element in enumerate(self.data): if index >= self.n: yield element
SkipEnumerable_loop(m, g, sub, index) ==
  LET r == next(m, sub) IN
  IF r.st # "ok" THEN r
  ELSE IF index >= r.m.nodes[m.its[g].node].n
       THEN Yield(r.m, g, [r.m.its[g] EXCEPT !.sub = sub, !.i = index + 1], r.v)
       ELSE SkipEnumerable_loop(r.m, g, sub, index + 1)

\* SkipEnumerable.__iter__.
SkipEnumerable_iter(m, g) ==
  IF m.its[g].pc = "new"
  THEN LET a == iter_data(m, m.its[g].node) IN SkipEnumerable_loop(a.m, g, a.v, 0)
  ELSE SkipEnumerable_loop(m, g, m.its[g].sub, m.its[g].i)

RECURSIVE TakeEnumerable_loop(_, _, _, _)
\* for index, element in enumerate(self.data): if index < self.n: yield element
TakeEnumerable_loop(m, g, sub, index) ==
  LET r == next(m, sub) IN
  IF r.st # "ok" THEN r
  ELSE IF index < r.m.nodes[m.its[g].node].n
       THEN Yield(r.m, g, [r.m.its[g] EXCEPT !.sub = sub, !.i = index + 1], r.v)
       ELSE TakeEnumerable_loop(r.m, g, sub, index + 1)

\* TakeEnumerable.__iter__.
TakeEnumerable_iter(m, g) ==
  IF m.its[g].pc = "new"
  THEN LET a == iter_data(m, m.its[g].node) IN TakeEnumerable_loop(a.m, g, a.v, 0)
  ELSE TakeEnumerable_loop(m, g, m.its[g].sub, m.its[g].i)

\* try: e = next(self._cycle) / except StopIteration: e = None
first_or_None(m, c) ==
  LET r == next(m, c) IN IF r.st = "StopIteration" THEN Ok(r.m, None) ELSE r

RECURSIVE SkipWhileEnumerable_skip(_, _, _, _)
\* while skip: e = next(self._cycle); skip = self.predicate(e); if skip: i += 1
\* entered with skip true; v is <<e, i>> when the loop ends.  spins counts the
\* passes: the cycle is periodic, so a loop that lasts this long never ends.
SkipWhileEnumerable_skip(m, g, i, spins) ==
  LET nd == m.nodes[m.its[g].node]
      r == Unguarded(next(m, nd.cycle))
  IN IF spins > MaxYield THEN Raise(m, "Hang")
     ELSE IF r.st # "ok" THEN r
     ELSE IF PredHolds(r.m, nd.predicate, r.v)
          THEN SkipWhileEnumerable_skip(r.m, g, i + 1, spins + 1)
          ELSE Ok(r.m, <<r.v, i>>)

\* SkipWhileEnumerable.__iter__ up to its second loop; v is <<e, i>> there.
SkipWhileEnumerable_head(m, g) ==
  LET nd == m.nodes[m.its[g].node]
      e == first_or_None(m, nd.cycle)
      skip == IF e.v = None THEN FALSE ELSE PredHolds(e.m, nd.predicate, e.v)
  IN IF e.st # "ok" THEN e
     ELSE IF skip THEN SkipWhileEnumerable_skip(e.m, g, 1, 0)
     ELSE Ok(e.m, <<e.v, 1>>)

\* SkipWhileEnumerable.__iter__; its second loop is
\*   while i < len(self.data): yield e; i += 1; e = next(self._cycle)
SkipWhileEnumerable_iter(m, g) ==
  LET s == m.its[g]
      h == IF s.pc = "new" THEN SkipWhileEnumerable_head(m, g)
           ELSE LET r == Unguarded(next(m, m.nodes[s.node].cycle))
                IN IF r.st = "ok" THEN Ok(r.m, <<r.v, s.i + 1>>) ELSE r
      l == len_data(h.m, s.node)
  IN IF h.st # "ok" THEN h
     ELSE IF l.st # "ok" THEN l
     ELSE IF h.v[2] < l.v
          THEN Yield(l.m, g, [l.m.its[g] EXCEPT !.e = h.v[1], !.i = h.v[2]], h.v[1])
          ELSE Raise(l.m, "StopIteration")

RECURSIVE TakeWhileEnumerable_tail(_, _, _)
\* while i < len(self.data): next(self._cycle); i += 1
TakeWhileEnumerable_tail(m, g, i) ==
  LET l == len_data(m, m.its[g].node)
      r == Unguarded(next(l.m, l.m.nodes[m.its[g].node].cycle))
  IN IF l.st # "ok" THEN l
     ELSE IF ~(i < l.v) THEN Raise(l.m, "StopIteration")
     ELSE IF r.st # "ok" THEN r
     ELSE TakeWhileEnumerable_tail(r.m, g, i + 1)

\* TakeWhileEnumerable.__iter__; its first loop is
\*   while take: yield e; e = next(self._cycle); take = self.predicate(e); i += 1
TakeWhileEnumerable_iter(m, g) ==
  LET s == m.its[g]
      nd == m.nodes[s.node]
      e == IF s.pc = "new" THEN first_or_None(m, nd.cycle) ELSE Unguarded(next(m, nd.cycle))
      i == IF s.pc = "new" THEN 1 ELSE s.i + 1
      take == IF s.pc = "new" /\ e.v = None THEN FALSE ELSE PredHolds(e.m, nd.predicate, e.v)
  IN IF e.st # "ok" THEN e
     ELSE IF take THEN Yield(e.m, g, [e.m.its[g] EXCEPT !.e = e.v, !.i = i], e.v)
     ELSE TakeWhileEnumerable_tail(e.m, g, i)

\* A faulty variant of any_key: only the first element of the second operand
\* is compared.
any_key_first(m, it, key, k1) ==
  LET r == next(m, it) IN
  IF r.st = "StopIteration" THEN Ok(r.m, FALSE)
  ELSE IF r.st # "ok" THEN r
  ELSE Ok(r.m, KeyOf(key, r.v) = k1)

RECURSIVE any_key(_, _, _, _)
\* any(self.key(i2) == k1 for i2 in self.enumerable), it being the iterator of
\* the generator expression's for loop: it stops at the first match.
any_key(m, it, key, k1) ==
  LET r == next(m, it) IN
  IF r.st = "StopIteration" THEN Ok(r.m, FALSE)
  ELSE IF r.st # "ok" THEN r
  ELSE IF KeyOf(key, r.v) = k1 THEN Ok(r.m, TRUE)
  ELSE any_key(r.m, it, key, k1)

RECURSIVE IntersectEnumerable_loop(_, _, _, _)
\* for i in self.data: k1 = self.key(i); if any(...) [is wanted]: yield i
\* wanted is TRUE for IntersectEnumerable and FALSE for ExceptEnumerable.
IntersectEnumerable_loop(m, g, sub, wanted) ==
  LET nd == m.nodes[m.its[g].node]
      r == next(m, sub)
      a == iter_node(r.m, nd.enumerable)
      found == any_key(a.m, a.v, nd.key, KeyOf(nd.key, r.v))
  IN IF r.st # "ok" THEN r
     ELSE IF found.st # "ok" THEN found
     ELSE IF found.v = wanted THEN Yield(found.m, g, [found.m.its[g] EXCEPT !.sub = sub], r.v)
     ELSE IntersectEnumerable_loop(found.m, g, sub, wanted)

\* IntersectEnumerable.__iter__.
IntersectEnumerable_iter(m, g) ==
  IF m.its[g].pc = "new"
  THEN LET a == iter_data(m, m.its[g].node) IN IntersectEnumerable_loop(a.m, g, a.v, TRUE)
  ELSE IntersectEnumerable_loop(m, g, m.its[g].sub, TRUE)

\* ExceptEnumerable.__iter__.
ExceptEnumerable_iter(m, g) ==
  IF m.its[g].pc = "new"
  THEN LET a == iter_data(m, m.its[g].node) IN IntersectEnumerable_loop(a.m, g, a.v, FALSE)
  ELSE IntersectEnumerable_loop(m, g, m.its[g].sub, FALSE)

\* ------------------------------------------------------------------ __init__
\* Enumerable.__init__(data) for a list: _data = data, _cycle = cycle(data).
Enumerable_init(m, xs) ==
  LET a == iter_list(m, xs)
      c == cycle(a.m, a.v)
  IN AddNode(c.m, [NoNode EXCEPT !.kind = "Enumerable", !.data = xs, !.cycle = c.v])

\* Enumerable.__init__(data) for a single-pass iterator object it:
\*   is_generator = hasattr(data, "gi_running") or isinstance(data, io.TextIOBase)
\*   self._data = data if not is_generator else [i for i in data]
\*   self._cycle = itertools.cycle(self._data)
\* gi_running tells whether it is a generator object; iter(it) is it itself.
Enumerable_init_iterator(m, it, gi_running) ==
  LET d == drain(m, it, <<>>)
      c == cycle(m, it)
  IN IF gi_running THEN (IF d.st = "ok" THEN Enumerable_init(d.m, d.v) ELSE d)
     ELSE AddNode(c.m, [NoNode EXCEPT !.kind = "Enumerable", !.iterator = it, !.cycle = c.v])

\* Enumerable.__init__(enumerable) as the subclasses call it through super():
\* _data = enumerable, _cycle = cycle(enumerable); rec carries the fields the
\* subclass sets after it.
super_init(m, rec, src) ==
  LET a == iter_node(m, src)
      c == cycle(a.m, a.v)
  IN AddNode(c.m, [rec EXCEPT !.src = src, !.cycle = c.v])

\* The subclasses whose _cycle no __iter__, __len__ or __getitem__ reads: the
\* cycle object is created unstarted and never advanced, so it is left out.
plain_init(m, rec, src) == AddNode(m, [rec EXCEPT !.src = src])

SelectEnumerable_init(m, src, func) ==
  plain_init(m, [NoNode EXCEPT !.kind = "SelectEnumerable", !.key = func], src)

WhereEnumerable_init(m, src, predicate) ==
  super_init(m, [NoNode EXCEPT !.kind = "WhereEnumerable", !.predicate = predicate], src)

SelectManyEnumerable_init(m, src, selector) ==
  plain_init(m, [NoNode EXCEPT !.kind = "SelectManyEnumerable", !.key = selector], src)

\* SkipEnumerable.__init__: self._cycle = itertools.cycle(itertools.islice(
\* self.data, n)); islice raises ValueError for a negative stop.
SkipEnumerable_init(m, src, n) ==
  IF n < 0 THEN Raise(m, "ValueError")
  ELSE plain_init(m, [NoNode EXCEPT !.kind = "SkipEnumerable", !.n = n], src)

\* TakeEnumerable.__init__: self._cycle = itertools.cycle(itertools.islice(
\* self.data, 0, n)); islice raises ValueError for a negative stop.
TakeEnumerable_init(m, src, n) ==
  IF n < 0 THEN Raise(m, "ValueError")
  ELSE plain_init(m, [NoNode EXCEPT !.kind = "TakeEnumerable", !.n = n], src)

\* SkipWhileEnumerable.__init__: self._cycle = itertools.cycle(self.data).
SkipWhileEnumerable_init(m, src, predicate) ==
  super_init(m, [NoNode EXCEPT !.kind = "SkipWhileEnumerable", !.predicate = predicate], src)

\* TakeWhileEnumerable.__init__: self._cycle = itertools.cycle(self.data).
TakeWhileEnumerable_init(m, src, predicate) ==
  super_init(m, [NoNode EXCEPT !.kind = "TakeWhileEnumerable", !.predicate = predicate], src)

\* ReversedEnumerable.__init__: self._cycle = itertools.cycle(reversed(self.data)).
ReversedEnumerable_init(m, src) ==
  LET a == reversed_node(m, src)
      c == cycle(a.m, a.v)
  IN IF a.st # "ok" THEN a
     ELSE AddNode(c.m, [NoNode EXCEPT !.kind = "ReversedEnumerable", !.src = src, !.cycle = c.v])

\* ConcatenateEnumerable.__init__:
\*   self._cycle = itertools.cycle(itertools.chain(self.data, self.enumerable)).
ConcatenateEnumerable_init(m, src, enumerable) ==
  LET a == chain(m, src, enumerable)
      c == cycle(a.m, a.v)
  IN AddNode(c.m, [NoNode EXCEPT !.kind = "ConcatenateEnumerable", !.src = src,
                                  !.enumerable = enumerable, !.cycle = c.v])

IntersectEnumerable_init(m, src, enumerable, key) ==
  plain_init(m, [NoNode EXCEPT !.kind = "IntersectEnumerable", !.enumerable = enumerable,
                               !.key = key], src)

ExceptEnumerable_init(m, src, enumerable, key) ==
  plain_init(m, [NoNode EXCEPT !.kind = "ExceptEnumerable", !.enumerable = enumerable,
                               !.key = key], src)

\* Grouping.__init__(key, data) over an Enumerable (group_join passes a
\* WhereEnumerable): self.key = key, then Enumerable.__init__(data).
Grouping_init(m, key, src) ==
  super_init(m, [NoNode EXCEPT !.kind = "Grouping", !.gkey = key], src)

GroupJoinEnumerable_init(m, src, inner, outer_key, inner_key) ==
  plain_init(m, [NoNode EXCEPT !.kind = "GroupJoinEnumerable", !.enumerable = inner,
                               !.key = outer_key, !.key2 = inner_key], src)

\* A faulty variant of GroupJoinEnumerable.__iter__: the traversal ends at the
\* first outer element whose group is empty.
GroupJoinEnumerable_matched_only(m, g) ==
  LET nd == m.nodes[m.its[g].node]
      a == IF m.its[g].pc = "new" THEN iter_data(m, m.its[g].node) ELSE Ok(m, m.its[g].sub)
      o == next(a.m, a.v)
      ok == KeyOf(nd.key, o.v)
      m1 == SetIt(o.m, g, [o.m.its[g] EXCEPT !.sub = a.v, !.ok = ok])
      w == WhereEnumerable_init(m1, nd.enumerable, [frame |-> g, s |-> {}, key |-> nd.key2])
      grp == Grouping_init(w.m, ok, w.v)
      inner == to_list(grp.m, grp.v)
  IN IF o.st # "ok" THEN o
     ELSE IF inner.v = <<>> THEN Raise(inner.m, "StopIteration")
     ELSE Yield(grp.m, g, grp.m.its[g], Tuple2(o.v, Ref(grp.v)))

\* GroupJoinEnumerable.__iter__ with the default result_func:
\*   for o in self.data:
\*       ok = self.outer_key(o)
\*       yield (o, Grouping(Key({"id": ok}),
\*                 self.inner_enumerable.where(lambda i: self.inner_key(i) == ok)))
\* The lambda reads the frame's local ok when it is called, not when it is made.
GroupJoinEnumerable_iter(m, g) ==
  LET nd == m.nodes[m.its[g].node]
      a == IF m.its[g].pc = "new" THEN iter_data(m, m.its[g].node) ELSE Ok(m, m.its[g].sub)
      o == next(a.m, a.v)
      ok == KeyOf(nd.key, o.v)
      m1 == SetIt(o.m, g, [o.m.its[g] EXCEPT !.sub = a.v, !.ok = ok])
      w == WhereEnumerable_init(m1, nd.enumerable, [frame |-> g, s |-> {}, key |-> nd.key2])
      grp == Grouping_init(w.m, ok, w.v)
  IN IF o.st # "ok" THEN o
     ELSE Yield(grp.m, g, grp.m.its[g], Tuple2(o.v, Ref(grp.v)))

\* ------------------------------------------------------------------ keyed nodes
\* hash(json.dumps(key)) for the integer (or None) keys of the model: the JSON
\* text of the key; distinct texts are taken to hash apart.
key_hash(key) == IF key = None THEN "null" ELSE ToString(key)

\* k in d, d[k] and d[k] = v (insertion of a new key at the end) for a dict
\* held as <<key, value>> pairs in insertion order.
HasKey(d, k) == \E p \in 1..Len(d) : d[p][1] = k
Lookup(d, k) == d[CHOOSE p \in 1..Len(d) : d[p][1] = k][2]
Store(d, k, v) ==
  IF HasKey(d, k) THEN [p \in 1..Len(d) |-> IF d[p][1] = k THEN <<k, v>> ELSE d[p]]
  ELSE Append(d, <<k, v>>)
Keys(d) == [p \in 1..Len(d) |-> d[p][1]]
Values(d) == [p \in 1..Len(d) |-> d[p][2]]

RECURSIVE UnionEnumerable_load_last(_, _, _)
\* A faulty variant of UnionEnumerable._load_data: a later element replaces
\* the one kept for its key.
UnionEnumerable_load_last(d, xs, key) ==
  IF xs = <<>> THEN d
  ELSE UnionEnumerable_load_last(Store(d, key_hash(KeyOf(key, Head(xs))), Head(xs)),
                                 Tail(xs), key)

RECURSIVE UnionEnumerable_load(_, _, _)
\* UnionEnumerable._load_data over the elements xs of
\* self.data.concat(self.enumerable): the first element of each key is kept.
UnionEnumerable_load(d, xs, key) ==
  IF xs = <<>> THEN d
  ELSE UnionEnumerable_load(
         IF HasKey(d, key_hash(KeyOf(key, Head(xs)))) THEN d
         ELSE Store(d, key_hash(KeyOf(key, Head(xs))), Head(xs)),
         Tail(xs), key)

\* UnionEnumerable.__init__: _load_data() traverses a ConcatenateEnumerable it
\* builds over the operands; self._cycle = cycle((k for k in self.union)).
UnionEnumerable_init(m, src, enumerable, key) ==
  LET cat == ConcatenateEnumerable_init(m, src, enumerable)
      xs == list_of(cat.m, cat.v)
      d == UnionEnumerable_load(<<>>, xs.v, key)
      a == iter_list(xs.m, Keys(d))
      c == cycle(a.m, a.v)
  IN IF xs.st # "ok" THEN xs
     ELSE AddNode(c.m, [NoNode EXCEPT !.kind = "UnionEnumerable", !.src = src,
                                     !.enumerable = enumerable, !.key = key,
                                     !.dict = d, !.cycle = c.v])

\* UnionEnumerable.__iter__:
\*   i = 0; while i < len(self): k = next(self._cycle); yield self.union[k]; i += 1
UnionEnumerable_iter(m, g) ==
  LET nd == m.nodes[m.its[g].node]
      i == IF m.its[g].pc = "new" THEN 0 ELSE m.its[g].i + 1
      r == Unguarded(next(m, nd.cycle))
  IN IF ~(i < Len(nd.dict)) THEN Raise(m, "StopIteration")
     ELSE IF r.st # "ok" THEN r
     ELSE Yield(r.m, g, [r.m.its[g] EXCEPT !.i = i], Lookup(nd.dict, r.v))

\* Grouping.__init__(key, [d]) as GroupedEnumerable._load_data calls it.
Grouping_of_list(m, key, xs) ==
  LET r == Enumerable_init(m, xs)
  IN Ok(SetNode(r.m, r.v, [r.m.nodes[r.v] EXCEPT !.kind = "Grouping", !.gkey = key]), r.v)

\* A faulty variant of Grouping_append: the element is put in front, so a
\* group holds its elements in the reverse of source order.
Grouping_prepend(m, n, d) ==
  LET li == m.its[m.nodes[n].cycle].sub
  IN [m EXCEPT !.nodes[n].data = <<d>> \o @, !.its[li].xs = <<d>> \o @]

\* self.grouping[kv_hash].data.append(d): the list grows in place, so the list
\* iterator the Grouping's cycle wraps sees the new element too.
Grouping_append(m, n, d) ==
  LET li == m.its[m.nodes[n].cycle].sub
  IN [m EXCEPT !.nodes[n].data = Append(@, d), !.its[li].xs = Append(@, d)]

RECURSIVE GroupedEnumerable_load(_, _, _, _)
\* GroupedEnumerable._load_data: for d in self.data, sub being the iterator.
\* v is the grouping dict, from kv_hash to the id of the Grouping.
GroupedEnumerable_load(m, sub, key, grouping) ==
  LET r == next(m, sub)
      kv == KeyOf(key, r.v)
      grp == Grouping_of_list(r.m, kv, <<r.v>>)
  IN IF r.st = "StopIteration" THEN Ok(r.m, grouping)
     ELSE IF r.st # "ok" THEN r
     ELSE IF HasKey(grouping, key_hash(kv))
          THEN GroupedEnumerable_load(Grouping_append(r.m, Lookup(grouping, key_hash(kv)), r.v),
                                      sub, key, grouping)
          ELSE GroupedEnumerable_load(grp.m, sub, key, Store(grouping, key_hash(kv), grp.v))

\* GroupedEnumerable.__init__ with key_names = ['id'] and the default func.
GroupedEnumerable_init(m, src, key) ==
  LET n == plain_init(m, [NoNode EXCEPT !.kind = "GroupedEnumerable", !.key = key], src)
      s == iter_data(n.m, n.v)
      ld == GroupedEnumerable_load(s.m, s.v, key, <<>>)
      a == iter_list(ld.m, Keys(ld.v))
      c == cycle(a.m, a.v)
  IN IF ld.st # "ok" THEN ld
     ELSE Ok(SetNode(c.m, n.v, [c.m.nodes[n.v] EXCEPT !.dict = ld.v, !.cycle = c.v]), n.v)

\* GroupedEnumerable.__iter__:
\*   i = 0; while i < len(self): k = next(self._cycle); yield self.func(self.grouping[k]); i += 1
GroupedEnumerable_iter(m, g) ==
  LET nd == m.nodes[m.its[g].node]
      i == IF m.its[g].pc = "new" THEN 0 ELSE m.its[g].i + 1
      r == Unguarded(next(m, nd.cycle))
  IN IF ~(i < Len(nd.dict)) THEN Raise(m, "StopIteration")
     ELSE IF r.st # "ok" THEN r
     ELSE Yield(r.m, g, [r.m.its[g] EXCEPT !.i = i], Ref(Lookup(nd.dict, r.v)))

DistinctEnumerable_init(m, src, key) ==
  plain_init(m, [NoNode EXCEPT !.kind = "DistinctEnumerable", !.key = key], src)

RECURSIVE DistinctEnumerable_load_last(_, _, _)
\* A faulty variant of the loading loop of DistinctEnumerable.__iter__: a
\* later element replaces the one kept for its key.
DistinctEnumerable_load_last(d, xs, key) ==
  IF xs = <<>> THEN d
  ELSE DistinctEnumerable_load_last(Store(d, KeyOf(key, Head(xs)), Head(xs)), Tail(xs), key)

RECURSIVE DistinctEnumerable_load(_, _, _)
\* for element in self.data:
\*     if not self.key(element) in self.set: self.set[self.key(element)] = element
DistinctEnumerable_load(d, xs, key) ==
  IF xs = <<>> THEN d
  ELSE DistinctEnumerable_load(
         IF HasKey(d, KeyOf(key, Head(xs))) THEN d ELSE Store(d, KeyOf(key, Head(xs)), Head(xs)),
         Tail(xs), key)

\* DistinctEnumerable.__iter__: the loop above, then
\*   for k in self.set: yield self.set[k]
DistinctEnumerable_iter(m, g) ==
  LET n == m.its[g].node
      a == iter_data(m, n)
      xs == drain(a.m, a.v, <<>>)
      d == DistinctEnumerable_load(xs.m.nodes[n].dict, xs.v, xs.m.nodes[n].key)
      li == iter_list(SetNode(xs.m, n, [xs.m.nodes[n] EXCEPT !.dict = d]), Values(d))
      sub == IF m.its[g].pc = "new" THEN li ELSE Ok(m, m.its[g].sub)
      r == next(sub.m, sub.v)
  IN IF m.its[g].pc = "new" /\ xs.st # "ok" THEN xs
     ELSE IF r.st # "ok" THEN r
     ELSE Yield(r.m, g, [r.m.its[g] EXCEPT !.sub = sub.v], r.v)

\* JoinEnumerable.__init__: self.data_cycle = cycle(self.data),
\* self.enumerable_cycle = cycle(self.inner_enumerable).
JoinEnumerable_init(m, src, inner, outer_key, inner_key) ==
  LET a == iter_node(m, src)
      c == cycle(a.m, a.v)
      b == iter_node(c.m, inner)
      c2 == cycle(b.m, b.v)
  IN AddNode(c2.m, [NoNode EXCEPT !.kind = "JoinEnumerable", !.src = src, !.enumerable = inner,
                                   !.key = outer_key, !.key2 = inner_key,
                                   !.cycle = c.v, !.cycle2 = c2.v])

RECURSIVE JoinEnumerable_loop(_, _, _, _, _)
\* The loops of JoinEnumerable.__iter__ with the default result_func, entered
\* at the test of the inner while with the locals i, o, j; j = None enters at
\* the test of the outer while.
JoinEnumerable_loop(m, g, i, o, j) ==
  LET nd == m.nodes[m.its[g].node]
      lo == len_data(m, m.its[g].node)
      no == Unguarded(next(lo.m, nd.cycle))
      li == len(m, nd.enumerable)
      ni == Unguarded(next(li.m, nd.cycle2))
  IN IF j = None
     THEN IF lo.st # "ok" THEN lo
          ELSE IF ~(i < lo.v) THEN Raise(lo.m, "StopIteration")
          ELSE IF no.st # "ok" THEN no
          ELSE JoinEnumerable_loop(no.m, g, i, no.v, 0)
     ELSE IF li.st # "ok" THEN li
          ELSE IF ~(j < li.v) THEN JoinEnumerable_loop(li.m, g, i + 1, o, None)
          ELSE IF ni.st # "ok" THEN ni
          ELSE IF KeyOf(nd.key, o) = KeyOf(nd.key2, ni.v)
               THEN Yield(ni.m, g, [ni.m.its[g] EXCEPT !.i = i, !.e = o, !.j = j], Tuple2(o, ni.v))
               ELSE JoinEnumerable_loop(ni.m, g, i, o, j + 1)

\* A faulty variant of JoinEnumerable.__iter__: after a row it moves on to
\* the next outer element, so an outer element gives one row at most.
JoinEnumerable_first_match(m, g) ==
  IF m.its[g].pc = "new" THEN JoinEnumerable_loop(m, g, 0, None, None)
  ELSE JoinEnumerable_loop(m, g, m.its[g].i + 1, None, None)

\* JoinEnumerable.__iter__.
JoinEnumerable_iter(m, g) ==
  IF m.its[g].pc = "new" THEN JoinEnumerable_loop(m, g, 0, None, None)
  ELSE JoinEnumerable_loop(m, g, m.its[g].i, m.its[g].e, m.its[g].j + 1)

ZipEnumerable_init(m, src, enumerable) ==
  plain_init(m, [NoNode EXCEPT !.kind = "ZipEnumerable", !.enumerable = enumerable], src)

\* ZipEnumerable.__len__: min(len(self.data), len(self.enumerable)).
ZipEnumerable_len(m, n) ==
  LET a == len(m, m.nodes[n].src)
      b == len(a.m, m.nodes[n].enumerable)
  IN IF a.st # "ok" THEN a ELSE IF b.st # "ok" THEN b ELSE Ok(b.m, Min2(a.v, b.v))

\* ZipEnumerable.__iter__ with the default func:
\*   i = 0
\*   while i < len(self): yield (self.data[i], self.enumerable[i]); i += 1
ZipEnumerable_iter(m, g) ==
  LET nd == m.nodes[m.its[g].node]
      i == IF m.its[g].pc = "new" THEN 0 ELSE m.its[g].i + 1
      l == ZipEnumerable_len(m, m.its[g].node)
      a == getitem(l.m, nd.src, i)
      b == getitem(a.m, nd.enumerable, i)
  IN IF l.st # "ok" THEN l
     ELSE IF ~(i < l.v) THEN Raise(l.m, "StopIteration")
     ELSE IF a.st # "ok" THEN a
     ELSE IF b.st # "ok" THEN b
     ELSE Yield(b.m, g, [b.m.its[g] EXCEPT !.i = i], Tuple2(a.v, b.v))

\* RepeatEnumerable.__init__(element, length): no super().__init__.
RepeatEnumerable_init(m, element, length) ==
  AddNode(m, [NoNode EXCEPT !.kind = "RepeatEnumerable", !.data = <<element>>, !.n = length])

\* RepeatEnumerable.__iter__:
\*   i = 0; while i < self.length: yield next(self._cycle); i += 1
RepeatEnumerable_iter(m, g) ==
  LET nd == m.nodes[m.its[g].node]
      i == IF m.its[g].pc = "new" THEN 0 ELSE m.its[g].i + 1
  IN IF i < nd.n THEN Yield(m, g, [m.its[g] EXCEPT !.i = i], nd.data[1])
     ELSE Raise(m, "StopIteration")

\* ------------------------------------------------------------------ ordering
\* OrderingDirection(key, reverse).
OrderingDirection(key, reverse) == [key |-> key, descending |-> reverse]

\* The list ys (sorted) with x put behind every element that does not sort
\* after it: the builtin sorted() is stable, also with reverse=True.
Insert(ys, x, key, reverse) ==
  LET after == {p \in 1..Len(ys) :
                  IF reverse THEN KeyOf(key, ys[p]) < KeyOf(key, x)
                  ELSE KeyOf(key, ys[p]) > KeyOf(key, x)}
      at == IF after = {} THEN Len(ys) + 1 ELSE CHOOSE p \in after : \A q \in after : p <= q
  IN SubSeq(ys, 1, at - 1) \o <<x>> \o SubSeq(ys, at, Len(ys))

RECURSIVE sorted(_, _, _)
\* sorted(xs, key=key, reverse=reverse).
sorted(xs, key, reverse) ==
  IF xs = <<>> THEN <<>>
  ELSE Insert(sorted(SubSeq(xs, 1, Len(xs) - 1), key, reverse), xs[Len(xs)], key, reverse)

\* A faulty variant of sort_chain: only the primary directive is applied, so
\* ties are left in input order instead of going to the next directive.
sort_primary_only(xs, key_funcs, k) ==
  IF k = 0 THEN xs ELSE sorted(xs, key_funcs[1].key, key_funcs[1].descending)

RECURSIVE sort_chain(_, _, _)
\* for o in reversed(self._key_funcs):
\*     self._data = sorted(self._data, key=o.key, reverse=o.descending)
\* with k directives still to apply.
sort_chain(xs, key_funcs, k) ==
  IF k = 0 THEN xs
  ELSE sort_chain(sorted(xs, key_funcs[k].key, key_funcs[k].descending), key_funcs, k - 1)

\* SortedEnumerable.__init__(enumerable, key_funcs) with at least one
\* directive: the first sorted() call traverses the enumerable, and
\* self._cycle = itertools.cycle(self._data) walks the sorted list.
SortedEnumerable_init(m, src, key_funcs) ==
  LET xs == list_of(m, src)
      data == sort_chain(xs.v, key_funcs, Len(key_funcs))
      a == iter_list(xs.m, data)
      c == cycle(a.m, a.v)
  IN IF xs.st # "ok" THEN xs
     ELSE AddNode(c.m, [NoNode EXCEPT !.kind = "SortedEnumerable", !.data = data,
                                     !.key_funcs = key_funcs, !.cycle = c.v])

\* Enumerable.order_by / order_by_descending.
Enumerable_order_by(m, n, key, reverse) ==
  SortedEnumerable_init(m, n, <<OrderingDirection(key, reverse)>>)

\* SortedEnumerable.then_by / then_by_descending:
\*   self._key_funcs.append(OrderingDirection(key=func, reverse=...))
\*   return SortedEnumerable(self, self._key_funcs)
SortedEnumerable_then_by(m, n, func, reverse) ==
  LET kf == Append(m.nodes[n].key_funcs, OrderingDirection(func, reverse))
  IN SortedEnumerable_init(SetNode(m, n, [m.nodes[n] EXCEPT !.key_funcs = kf]), n, kf)

\* ------------------------------------------------------------------ next, len
\* Resuming generator frame g: the __iter__ of its node's class.
gen_next(m, g) ==
  LET kind == m.nodes[m.its[g].node].kind
      r == CASE kind = "SelectEnumerable" -> SelectEnumerable_iter(m, g)
             [] kind = "WhereEnumerable" -> WhereEnumerable_iter(m, g)
             [] kind = "SelectManyEnumerable" -> SelectManyEnumerable_iter(m, g)
             [] kind = "SkipEnumerable" -> SkipEnumerable_iter(m, g)
             [] kind = "SkipWhileEnumerable" -> SkipWhileEnumerable_iter(m, g)
             [] kind = "TakeEnumerable" -> TakeEnumerable_iter(m, g)
             [] kind = "TakeWhileEnumerable" -> TakeWhileEnumerable_iter(m, g)
             [] kind = "IntersectEnumerable" -> IntersectEnumerable_iter(m, g)
             [] kind = "ExceptEnumerable" -> ExceptEnumerable_iter(m, g)
             [] kind = "GroupJoinEnumerable" -> GroupJoinEnumerable_iter(m, g)
             [] kind = "UnionEnumerable" -> UnionEnumerable_iter(m, g)
             [] kind = "GroupedEnumerable" -> GroupedEnumerable_iter(m, g)
             [] kind = "DistinctEnumerable" -> DistinctEnumerable_iter(m, g)
             [] kind = "JoinEnumerable" -> JoinEnumerable_iter(m, g)
             [] kind = "ZipEnumerable" -> ZipEnumerable_iter(m, g)
             [] kind = "RepeatEnumerable" -> RepeatEnumerable_iter(m, g)
             [] OTHER -> Enumerable_iter(m, g)
  IN IF m.its[g].pc = "done" THEN Raise(m, "StopIteration")
     ELSE IF r.st = "ok" THEN r
     ELSE Raise(SetIt(r.m, g, [r.m.its[g] EXCEPT !.pc = "done"]), r.st)

\* next(it) for an iterator object.
builtin_next(m, it) ==
  LET s == m.its[it] IN
  CASE s.k = "list" ->
         IF s.i < Len(s.xs) THEN Ok(SetIt(m, it, [s EXCEPT !.i = s.i + 1]), s.xs[s.i + 1])
         ELSE Raise(m, "StopIteration")
    [] s.k = "cycle" -> cycle_next(m, it)
    [] s.k = "chain" -> chain_next(m, it)
    [] s.k = "reversed" -> reversed_next(m, it)
    [] OTHER -> gen_next(m, it)

\* Enumerable.__len__: sum(1 for i in enumerate(self._data)).
Enumerable_len(m, n) ==
  IF m.nodes[n].iterator # 0
  THEN LET d == drain(m, m.nodes[n].iterator, <<>>) IN IF d.st = "ok" THEN Ok(d.m, Len(d.v)) ELSE d
  ELSE IF m.nodes[n].src = 0 THEN Ok(m, Len(m.nodes[n].data))
  ELSE LET d == list_of(m, m.nodes[n].src) IN IF d.st = "ok" THEN Ok(d.m, Len(d.v)) ELSE d

\* WhereEnumerable.__len__:
\*   len([element for element in self.data if self.predicate(element)]).
WhereEnumerable_len(m, n) ==
  LET d == list_of(m, m.nodes[n].src) IN
  IF d.st # "ok" THEN d
  ELSE Ok(d.m, Cardinality({k \in 1..Len(d.v) : PredHolds(d.m, m.nodes[n].predicate, d.v[k])}))

\* SkipWhileEnumerable.__len__ and TakeWhileEnumerable.__len__: sum(1 for e in self).
SkipWhileEnumerable_len(m, n) ==
  LET d == list_of(m, n) IN IF d.st = "ok" THEN Ok(d.m, Len(d.v)) ELSE d

\* ConcatenateEnumerable.__len__: len(self.data) + len(self.enumerable).
ConcatenateEnumerable_len(m, n) ==
  LET a == len(m, m.nodes[n].src)
      b == len(a.m, m.nodes[n].enumerable)
  IN IF a.st # "ok" THEN a ELSE IF b.st # "ok" THEN b ELSE Ok(b.m, a.v + b.v)

\* len(e) for an Enumerable e.
builtin_len(m, n) ==
  LET kind == m.nodes[n].kind IN
  CASE kind = "WhereEnumerable" -> WhereEnumerable_len(m, n)
    [] kind \in {"SkipWhileEnumerable", "TakeWhileEnumerable"} -> SkipWhileEnumerable_len(m, n)
    [] kind = "ConcatenateEnumerable" -> ConcatenateEnumerable_len(m, n)
    [] kind \in {"UnionEnumerable", "GroupedEnumerable"} -> Ok(m, Len(m.nodes[n].dict))
    [] kind = "ZipEnumerable" -> ZipEnumerable_len(m, n)
    [] kind = "RepeatEnumerable" -> Ok(m, m.nodes[n].n)
    [] OTHER -> Enumerable_len(m, n)

\* Enumerable.__getitem__.
Enumerable_getitem(m, n, index) ==
  LET l == len(m, n)
      d == list_of(l.m, n)
  IN IF index < 0 THEN Raise(m, "IndexError")
     ELSE IF l.st # "ok" THEN l
     ELSE IF l.v = 0 THEN Ok(l.m, None)
     ELSE IF d.st # "ok" THEN d
     ELSE Ok(d.m, IF index < Len(d.v) THEN d.v[index + 1] ELSE None)

\* ------------------------------------------------------------------ methods
\* Enumerable.to_list: [x for x in self].
Enumerable_to_list(m, n) == list_of(m, n)

\* Enumerable.count() with no predicate: sum(1 for element in self).
Enumerable_count(m, n) ==
  LET d == list_of(m, n) IN IF d.st = "ok" THEN Ok(d.m, Len(d.v)) ELSE d

\* Enumerable.element_at.
Enumerable_element_at(m, n, index) ==
  LET r == getitem(m, n, index) IN
  IF r.st = "ok" /\ r.v = None THEN Raise(r.m, "IndexError") ELSE r

\* Enumerable.element_at_or_default:
\*   try: return self.element_at(n)  except IndexError: return None
Enumerable_element_at_or_default(m, n, index) ==
  LET r == element_at(m, n, index) IN
  IF r.st = "IndexError" THEN Ok(r.m, None) ELSE r

RECURSIVE all_loop(_, _, _)
\* The builtin all() over the generator expression: it stops pulling at the
\* first element that fails the predicate.
all_loop(m, it, predicate) ==
  LET r == next(m, it) IN
  IF r.st = "StopIteration" THEN Ok(r.m, TRUE)
  ELSE IF r.st # "ok" THEN r
  ELSE IF ~PredHolds(r.m, predicate, r.v) THEN Ok(r.m, FALSE)
  ELSE all_loop(r.m, it, predicate)

\* Enumerable.all: all(predicate(e) for e in self).
Enumerable_all(m, n, predicate) ==
  LET a == iter_node(m, n) IN all_loop(a.m, a.v, predicate)

\* Enumerable.first:
\*   if func is not None: return self.where(func).element_at(0)
\*   return self.element_at(0)
Enumerable_first(m, n, func) ==
  IF func # NoFunc
  THEN LET w == WhereEnumerable_init(m, n, func) IN element_at(w.m, w.v, 0)
  ELSE element_at(m, n, 0)

\* Enumerable.first_or_default: the same with element_at_or_default(0).
Enumerable_first_or_default(m, n, func) ==
  IF func # NoFunc
  THEN LET w == WhereEnumerable_init(m, n, func) IN element_at_or_default(w.m, w.v, 0)
  ELSE element_at_or_default(m, n, 0)

\* self.where(func) if func is not None else self
filtered(m, n, func) == IF func # NoFunc THEN WhereEnumerable_init(m, n, func) ELSE Ok(m, n)

\* Enumerable.last: self.where(func).reverse().first() / self.reverse().first()
Enumerable_last(m, n, func) ==
  LET w == filtered(m, n, func)
      rv == ReversedEnumerable_init(w.m, w.v)
  IN IF rv.st # "ok" THEN rv ELSE first_of(rv.m, rv.v, NoFunc)

\* Enumerable.last_or_default: the same with first_or_default().
Enumerable_last_or_default(m, n, func) ==
  LET w == filtered(m, n, func)
      rv == ReversedEnumerable_init(w.m, w.v)
  IN IF rv.st # "ok" THEN rv ELSE first_or_default(rv.m, rv.v, NoFunc)

\* Enumerable.any: return self.first_or_default(predicate) is not None
Enumerable_any(m, n, predicate) ==
  LET r == first_or_default(m, n, predicate) IN
  IF r.st = "ok" THEN Ok(r.m, r.v # None) ELSE r

\* Enumerable.single:
\*   result = self.where(predicate) if predicate is not None else self
\*   if not result.any(): raise NoMatchingElement
\*   if result.count() > 1: raise MoreThanOneMatchingElement
\*   return result.first()
Enumerable_single(m, n, predicate) ==
  LET result == filtered(m, n, predicate)
      a == any(result.m, result.v, NoFunc)
      c == count(a.m, result.v)
  IN IF a.st # "ok" THEN a
     ELSE IF ~a.v THEN Raise(a.m, "NoMatchingElement")
     ELSE IF c.st # "ok" THEN c
     ELSE IF c.v > 1 THEN Raise(c.m, "MoreThanOneMatchingElement")
     ELSE first_of(c.m, result.v, NoFunc)

\* Enumerable.single_or_default:
\*   try: return self.single(predicate)  except NoMatchingElement: return None
Enumerable_single_or_default(m, n, predicate) ==
  LET r == single(m, n, predicate) IN
  IF r.st = "NoMatchingElement" THEN Ok(r.m, None) ELSE r

RECURSIVE Total(_)
\* The builtin sum() of a list of integers.
Total(xs) == IF xs = <<>> THEN 0 ELSE Head(xs) + Total(Tail(xs))

\* The elements of xs as a set.
Range(xs) == {xs[k] : k \in 1..Len(xs)}

\* Enumerable.sum with the default func: sum(func(x) for x in self); adding
\* None to an integer raises TypeError.
Enumerable_sum(m, n) ==
  LET d == list_of(m, n) IN
  IF d.st # "ok" THEN d
  ELSE IF None \in Range(d.v) THEN Raise(d.m, "TypeError")
  ELSE Ok(d.m, Total(d.v))

\* The builtins min(self, key=func) and max(self, key=func) with the default
\* func: no element raises ValueError, comparing None with another element
\* raises TypeError; largest tells max from min.
extreme(m, n, largest) ==
  LET d == list_of(m, n) IN
  IF d.st # "ok" THEN d
  ELSE IF d.v = <<>> THEN Raise(d.m, "ValueError")
  ELSE IF None \in Range(d.v) /\ Len(d.v) > 1 THEN Raise(d.m, "TypeError")
  ELSE Ok(d.m, CHOOSE x \in Range(d.v) :
                 \A y \in Range(d.v) : IF largest THEN y <= x ELSE x <= y)

\* Enumerable.min:
\*   if not self.any(): raise NoElementsError
\*   return func(min(self, key=func))
Enumerable_min(m, n) ==
  LET a == any(m, n, NoFunc) IN
  IF a.st # "ok" THEN a
  ELSE IF ~a.v THEN Raise(a.m, "NoElementsError")
  ELSE extreme(a.m, n, FALSE)

\* Enumerable.max: the same with max(self, key=func).
Enumerable_max(m, n) ==
  LET a == any(m, n, NoFunc) IN
  IF a.st # "ok" THEN a
  ELSE IF ~a.v THEN Raise(a.m, "NoElementsError")
  ELSE extreme(a.m, n, TRUE)

\* Enumerable.avg:
\*   if not self.any(): raise NoElementsError
\*   return float(self.sum(func)) / float(self.count())
\* The float quotient is kept as <<numerator, denominator>>.
Enumerable_avg(m, n) ==
  LET a == any(m, n, NoFunc)
      s == sum(a.m, n)
      c == count(s.m, n)
  IN IF a.st # "ok" THEN a
     ELSE IF ~a.v THEN Raise(a.m, "NoElementsError")
     ELSE IF s.st # "ok" THEN s
     ELSE IF c.st # "ok" THEN c
     ELSE IF c.v = 0 THEN Raise(c.m, "ZeroDivisionError")
     ELSE Ok(c.m, <<s.v, c.v>>)

\* Enumerable.median with the default func:
\*   if not self.any(): raise NoElementsError
\*   result = self.order_by(func).select(func).to_list()
\*   length = len(result); i = int(length / 2)
\*   return result[i] if length % 2 == 1
\*          else (float(result[i - 1]) + float(result[i])) / float(2)
\* The float quotient is kept as <<numerator, denominator>>; result[-1] of an
\* empty list raises IndexError.
Enumerable_median(m, n) ==
  LET a == any(m, n, NoFunc)
      o == order_by(a.m, n, 0, FALSE)
      s == SelectEnumerable_init(o.m, o.v, 0)
      result == to_list(s.m, s.v)
      length == Len(result.v)
      i == length \div 2
  IN IF a.st # "ok" THEN a
     ELSE IF ~a.v THEN Raise(a.m, "NoElementsError")
     ELSE IF o.st # "ok" THEN o
     ELSE IF result.st # "ok" THEN result
     ELSE IF length % 2 = 1 THEN Ok(result.m, result.v[i + 1])
     ELSE IF length = 0 THEN Raise(result.m, "IndexError")
     ELSE IF result.v[i] = None \/ result.v[i + 1] = None THEN Raise(result.m, "TypeError")
     ELSE Ok(result.m, <<result.v[i] + result.v[i + 1], 2>>)

\* The accumulator functions the callers pass to aggregate: 0 keeps the
\* accumulator (lambda a, e: a), 1 takes the element (lambda a, e: e), 2 is
\* lambda a, e: 2 * a + e, which raises TypeError on None.
Apply(func, m, a, e) ==
  CASE func = 0 -> Ok(m, a)
    [] func = 1 -> Ok(m, e)
    [] OTHER -> IF a = None \/ e = None THEN Raise(m, "TypeError") ELSE Ok(m, 2 * a + e)

RECURSIVE aggregate_loop(_, _, _, _, _, _)
\* for i, e in enumerate(self):
\*     if i == 0 and seed is None: continue
\*     result = func(result, e)
aggregate_loop(m, it, func, seed, i, result) ==
  LET r == next(m, it)
      f == Apply(func, r.m, result, r.v)
  IN IF r.st = "StopIteration" THEN Ok(r.m, result)
     ELSE IF r.st # "ok" THEN r
     ELSE IF i = 0 /\ seed = None THEN aggregate_loop(r.m, it, func, seed, i + 1, result)
     ELSE IF f.st # "ok" THEN f
     ELSE aggregate_loop(f.m, it, func, seed, i + 1, f.v)

\* Enumerable.aggregate:
\*   result = seed if seed is not None else self.first()
\*   the loop above; return result
Enumerable_aggregate(m, n, func, seed) ==
  LET result == IF seed # None THEN Ok(m, seed) ELSE first_of(m, n, NoFunc)
      a == iter_node(result.m, n)
  IN IF result.st # "ok" THEN result
     ELSE aggregate_loop(a.m, a.v, func, seed, 0, result.v)

\* The caller's construction: Enumerable(xs), Enumerable(ys) for a binary
\* operator, then the operator method on the first.  Node 1 is Enumerable(xs);
\* node 2, for a binary operator, Enumerable(ys).
RECURSIVE Pipeline(_, _, _)
\* The chained calls steps on node n, each on the node the one before
\* returned: n.take(2).reverse() is <<Step("take", 2), Step("reverse", 0)>>.
Pipeline(m, n, steps) ==
  IF steps = <<>> THEN Ok(m, n)
  ELSE LET s == Head(steps)
           r == CASE s.op = "take" -> TakeEnumerable_init(m, n, s.arg)
                  [] s.op = "skip" -> SkipEnumerable_init(m, n, s.arg)
                  [] s.op = "where" -> WhereEnumerable_init(m, n, Lambda(s.arg))
                  [] s.op = "reverse" -> ReversedEnumerable_init(m, n)
                  [] s.op = "order_by" -> order_by(m, n, s.arg, FALSE)
                  [] s.op = "order_by_descending" -> order_by(m, n, s.arg, TRUE)
                  [] s.op = "then_by" -> then_by(m, n, s.arg, FALSE)
                  [] s.op = "then_by_descending" -> then_by(m, n, s.arg, TRUE)
       IN IF r.st # "ok" THEN r ELSE Pipeline(r.m, r.v, Tail(steps))

Construct(pl) ==
  LET b == Enumerable_init(EmptyHeap, pl.xs)
      o == Enumerable_init(b.m, pl.ys)
  IN CASE pl.op = "Enumerable" -> b
       [] pl.op = "select" -> SelectEnumerable_init(b.m, 1, pl.key)
       [] pl.op = "where" -> WhereEnumerable_init(b.m, 1, Lambda(pl.p))
       [] pl.op = "select_many" -> SelectManyEnumerable_init(b.m, 1, pl.key)
       [] pl.op = "skip" -> SkipEnumerable_init(b.m, 1, pl.n)
       [] pl.op = "take" -> TakeEnumerable_init(b.m, 1, pl.n)
       [] pl.op = "skip_while" -> SkipWhileEnumerable_init(b.m, 1, Lambda(pl.p))
       [] pl.op = "take_while" -> TakeWhileEnumerable_init(b.m, 1, Lambda(pl.p))
       [] pl.op = "reverse" -> ReversedEnumerable_init(b.m, 1)
       [] pl.op = "distinct" -> DistinctEnumerable_init(b.m, 1, pl.key)
       [] pl.op = "group_by" -> GroupedEnumerable_init(b.m, 1, pl.key)
       [] pl.op = "order_by" -> order_by(b.m, 1, pl.key, FALSE)
       [] pl.op = "order_by_descending" -> order_by(b.m, 1, pl.key, TRUE)
       [] pl.op = "concat" -> ConcatenateEnumerable_init(o.m, 1, 2)
       [] pl.op = "zip" -> ZipEnumerable_init(o.m, 1, 2)
       [] pl.op = "union" -> UnionEnumerable_init(o.m, 1, 2, pl.key)
       [] pl.op = "intersect" -> IntersectEnumerable_init(o.m, 1, 2, pl.key)
       [] pl.op = "except_" -> ExceptEnumerable_init(o.m, 1, 2, pl.key)
       [] pl.op = "join" -> JoinEnumerable_init(o.m, 1, 2, pl.key, pl.key2)
       [] pl.op = "group_join" -> GroupJoinEnumerable_init(o.m, 1, 2, pl.key, pl.key2)
       [] pl.op = "skip_concat_take" ->
            LET sk == SkipEnumerable_init(b.m, 1, pl.n)
                tk == TakeEnumerable_init(sk.m, 1, pl.n)
            IN ConcatenateEnumerable_init(tk.m, sk.v, tk.v)
       [] pl.op = "take_skip" ->
            LET tk == TakeEnumerable_init(b.m, 1, pl.n) IN SkipEnumerable_init(tk.m, 1, pl.n)
       [] pl.op = "intersect_except" ->
            LET i == IntersectEnumerable_init(o.m, 1, 2, pl.key)
            IN ExceptEnumerable_init(i.m, 1, 2, pl.key)
       [] pl.op = "pipeline" -> Pipeline(b.m, 1, pl.steps)
       [] pl.op = "from_generator" ->
            LET g == iter_list(EmptyHeap, pl.xs) IN Enumerable_init_iterator(g.m, g.v, TRUE)
       [] pl.op = "from_iterator" ->
            LET g == iter_list(EmptyHeap, pl.xs) IN Enumerable_init_iterator(g.m, g.v, FALSE)

\* The dispatcher: the method the object's type supplies.
call(m, f, a, b) ==
  CASE f = "next" -> builtin_next(m, a)
    [] f = "len" -> builtin_len(m, a)
    [] f = "getitem" -> Enumerable_getitem(m, a, b)
    [] f = "to_list" -> Enumerable_to_list(m, a)
    [] f = "count" -> Enumerable_count(m, a)
    [] f = "element_at" -> Enumerable_element_at(m, a, b)
    [] f = "element_at_or_default" -> Enumerable_element_at_or_default(m, a, b)
    [] f = "all" -> Enumerable_all(m, a, b)
    [] f = "order_by" -> Enumerable_order_by(m, a, b[1], b[2])
    [] f = "then_by" -> SortedEnumerable_then_by(m, a, b[1], b[2])
    [] f = "first" -> Enumerable_first(m, a, b)
    [] f = "first_or_default" -> Enumerable_first_or_default(m, a, b)
    [] f = "last" -> Enumerable_last(m, a, b)
    [] f = "last_or_default" -> Enumerable_last_or_default(m, a, b)
    [] f = "any" -> Enumerable_any(m, a, b)
    [] f = "single" -> Enumerable_single(m, a, b)
    [] f = "single_or_default" -> Enumerable_single_or_default(m, a, b)
    [] f = "sum" -> Enumerable_sum(m, a)
    [] f = "min" -> Enumerable_min(m, a)
    [] f = "max" -> Enumerable_max(m, a)
    [] f = "avg" -> Enumerable_avg(m, a)
    [] f = "median" -> Enumerable_median(m, a)
    [] f = "aggregate" -> Enumerable_aggregate(m, a, b[1], b[2])
    [] f = "Construct" -> Construct(a)
    [] f = "iter" -> iter_node(m, a)

\* The caller's construction of plan pl, as a call.
New(pl) == call(EmptyHeap, "Construct", pl, 0)

\* ------------------------------------------------------------------ the caller
\* heap    the Enumerable and iterator objects
\* plan    what the caller constructed: the operator, its source lists and its
\*         arguments (it does not change after construction)
\* target  the node the plan's operator returned
\* log     the calls the caller made on its nodes, with what they returned
\* live    the traversals (iter(node)) the caller holds: the node, the
\*         generator, the elements pulled so far, whether it has ended
VARIABLES heap, plan, target, log, live
vars == <<heap, plan, target, log, live>>

RECURSIVE Reachable(_, _)
\* The iterator objects reachable from the iterators in S.
Reachable(m, S) ==
  LET T == (S \cup {m.its[i].sub : i \in S} \cup {m.its[i].sub2 : i \in S}) \ {0}
  IN IF T = S THEN S ELSE Reachable(m, T)

\* The heap without the iterator objects nothing refers to any more (CPython
\* frees them when the last reference goes): those no node's cycle, no
\* closure and no traversal in held reaches.  Ids are positions, so a freed
\* object leaves an empty slot, and empty slots at the end are cut.
Collect(m, held) ==
  LET roots == {m.nodes[n].cycle : n \in 1..Len(m.nodes)}
                 \cup {m.nodes[n].cycle2 : n \in 1..Len(m.nodes)}
                 \cup {m.nodes[n].predicate.frame : n \in 1..Len(m.nodes)}
                 \cup held
      used == Reachable(m, roots \ {0})
      last == IF used = {} THEN 0 ELSE CHOOSE i \in used : \A j \in used : j <= i
  IN [m EXCEPT !.its = [i \in 1..last |-> IF i \in used THEN m.its[i] ELSE NoIt]]

LiveIts(lv) == {lv[t].it : t \in 1..Len(lv)}

NoPlan == [op |-> "Enumerable", xs |-> <<>>, ys |-> <<>>, n |-> 0, p |-> {}, key |-> 0, key2 |-> 0,
           steps |-> <<>>]

\* One chained call of a pipeline plan: the method and its argument.
Step(op, arg) == [op |-> op, arg |-> arg]

\* The operators that take a second Enumerable.
Binary == {"concat", "zip", "union", "intersect", "except_", "join", "group_join",
           "intersect_except"}

\* The state after the caller constructed the nodes of plan pl, r being what
\* the construction returned.
Constructed(pl, r) ==
  /\ r.st = "ok"
  /\ heap = Collect(r.m, {})
  /\ plan = pl
  /\ target = r.v
  /\ log = <<>>
  /\ live = <<>>

\* The nodes the caller holds: the target and the Enumerables it built it from.
Held == {target, 1} \cup (IF plan.op \in Binary THEN {2} ELSE {})

\* A call recorded in the log.
Call(op, node, arg, r) == [op |-> op, node |-> node, arg |-> arg, res |-> r.v, st |-> r.st]

\* The caller makes the call r (a method's result on the current heap) and
\* keeps what it returned or raised, as long as its log has fewer than max
\* entries.  A call that never returns has no next state.
Returns(op, n, arg, r, max) ==
  /\ Len(log) < max
  /\ r.st # "Hang"
  /\ heap' = Collect(r.m, LiveIts(live))
  /\ log' = Append(log, Call(op, n, arg, r))
  /\ UNCHANGED <<plan, target, live>>

\* The caller makes the call r and drops what it returned.
Dropped(r) ==
  /\ r.st # "Hang"
  /\ heap' = Collect(r.m, LiveIts(live))
  /\ UNCHANGED <<plan, target, log, live>>

\* node.to_list()
ToList(n, max) == Returns("to_list", n, 0, to_list(heap, n), max)

\* len(node), the result not kept
Length(n) == Dropped(len(heap, n))

\* node.element_at(index), the result not kept
ElementAt(n, index) == Dropped(element_at(heap, n, index))

\* len(node)
LengthOf(n, max) == Returns("len", n, 0, len(heap, n), max)

\* node.count()
Count(n, max) == Returns("count", n, 0, count(heap, n), max)

\* node.all(lambda x: x in p)
All(n, p, max) == Returns("all", n, p, all(heap, n, Lambda(p)), max)

\* node.then_by(lambda x: digit key of x) / then_by_descending, on an ordered
\* node; the call returns the new node.
ThenBy(n, key, reverse, max) ==
  /\ heap.nodes[n].kind = "SortedEnumerable"
  /\ Returns("then_by", n, <<key, reverse>>, then_by(heap, n, key, reverse), max)

\* A traversal the caller holds.
Traversal(n, it) == [node |-> n, it |-> it, got |-> <<>>, done |-> FALSE]

\* it = iter(node): r is what iter returned.
Started(n, r) ==
  /\ heap' = Collect(r.m, LiveIts(live) \cup {r.v})
  /\ live' = Append(live, Traversal(n, r.v))
  /\ UNCHANGED <<plan, target, log>>

Iterate(n, max) == Len(live) < max /\ Started(n, iter(heap, n))

\* next(it) on the held traversal t: r is what next returned or raised.
Advanced(t, r) ==
  /\ r.st # "Hang"
  /\ heap' = Collect(r.m, LiveIts(live))
  /\ live' = [live EXCEPT ![t] = IF r.st = "ok" THEN [@ EXCEPT !.got = Append(@, r.v)]
                                 ELSE [@ EXCEPT !.done = TRUE]]
  /\ UNCHANGED <<plan, target, log>>

Advance(t) ==
  /\ ~live[t].done
  /\ Len(live[t].got) < MaxYield
  /\ Advanced(t, next(heap, live[t].it))

\* The caller drops the traversal t (del it); the log keeps how far it got.
Abandon(t, max) ==
  /\ Len(log) < max
  /\ log' = Append(log, [op |-> "abandon", node |-> live[t].node, arg |-> 0,
                         res |-> live[t].got,
                         st |-> IF live[t].done THEN "done" ELSE "live"])
  /\ live' = SubSeq(live, 1, t - 1) \o SubSeq(live, t + 1, Len(live))
  /\ heap' = Collect(heap, LiveIts(live'))
  /\ UNCHANGED <<plan, target>>

\* What a complete traversal of node n yields when it is the first call made
\* after the construction of the plan.
Pristine(n) == to_list(New(plan).m, n)

IsPrefix(a, b) == Len(a) <= Len(b) /\ SubSeq(b, 1, Len(a)) = a

\* ------------------------------------------------------------------ Spec
\* A caller that builds one operator node over Enumerable(xs) and then
\* traverses it and its sources completely, any number of times, with len()
\* and element_at() calls in between.  The log keeps the first MaxOps
\* traversals.
Preds == SUBSET Elems
KeySelectors == {0, 1}
Lists == ListsUpTo(MaxLen)
ShortLists == ListsUpTo(MaxLen - 2)

ChainPlans ==
  {[NoPlan EXCEPT !.op = "reverse", !.xs = xs] : xs \in Lists}
  \cup {[NoPlan EXCEPT !.op = op, !.xs = xs, !.key = k] :
          op \in {"select", "distinct", "order_by"}, xs \in Lists, k \in KeySelectors}
  \cup {[NoPlan EXCEPT !.op = op, !.xs = xs, !.n = n] :
          op \in {"skip", "take"}, xs \in Lists, n \in 0..MaxLen}
  \cup {[NoPlan EXCEPT !.op = op, !.xs = xs, !.p = p] :
          op \in {"where", "skip_while", "take_while"}, xs \in Lists, p \in Preds}
  \cup {[NoPlan EXCEPT !.op = op, !.xs = xs, !.ys = ys] :
          op \in {"concat", "zip", "union", "join"}, xs \in Lists, ys \in ShortLists}

Init == \E pl \in ChainPlans : Constructed(pl, New(pl))

Next ==
  \/ \E n \in Held : ToList(n, MaxOps)
  \/ \E n \in Held : Length(n)
  \/ \E n \in Held, index \in 0..MaxLen - 1 : ElementAt(n, index)

Spec == Init /\ [][Next]_vars

\* C1 (re-iterability): every complete traversal (to_list) of a node returns
\* the same elements in the same order as the node's first complete traversal,
\* whatever complete traversals, len() calls or element_at calls on the node
\* or on its upstream nodes happened in between.
C1_Reiterable ==
  \A i, j \in 1..Len(log) :
    log[i].node = log[j].node => log[i].st = log[j].st /\ log[i].res = log[j].res

\* ------------------------------------------------------------------ SpecCursor
\* A caller that starts a traversal of its node, advances it one element at a
\* time, drops it part-way, and makes complete traversals in between.
MaxLive == 2
MaxCalls == 2
CursorLists == ListsUpTo(MaxLen - 1)

CursorPlans ==
  {[NoPlan EXCEPT !.op = "Enumerable", !.xs = xs] : xs \in CursorLists}
  \cup {[NoPlan EXCEPT !.op = "where", !.xs = xs, !.p = p] : xs \in CursorLists, p \in Preds}
  \cup {[NoPlan EXCEPT !.op = op, !.xs = xs, !.key = k] :
          op \in {"group_by", "order_by"}, xs \in CursorLists, k \in KeySelectors}
  \cup {[NoPlan EXCEPT !.op = op, !.xs = xs, !.ys = ys] :
          op \in {"union", "join"}, xs \in CursorLists, ys \in ShortLists}

InitCursor == \E pl \in CursorPlans : Constructed(pl, New(pl))

NextCursor ==
  \/ Iterate(target, 1)
  \/ \E t \in 1..Len(live) : Advance(t)
  \/ \E t \in 1..Len(live) : Abandon(t, MaxCalls)
  \/ ToList(target, MaxCalls)

SpecCursor == InitCursor /\ [][NextCursor]_vars

\* ------------------------------------------------------------------ SpecLive
\* A caller that holds up to MaxLive traversals of one node at the same time
\* and advances them one element at a time in any interleaving.
NextLive ==
  \/ Iterate(target, MaxLive)
  \/ \E t \in 1..Len(live) : Advance(t)

SpecLive == InitCursor /\ [][NextLive]_vars

\* C2 (fresh traversal after an abandoned one): when a traversal of a node was
\* dropped after the consumer pulled k elements, 0 < k < length, the next
\* traversal of the same node starts at the first element and yields the
\* node's full sequence in its original order.
C2_FreshAfterAbandoned ==
  \A j \in 1..Len(log) - 1 :
    (/\ log[j].op = "abandon" /\ log[j].st = "live"
     /\ 0 < Len(log[j].res) /\ Len(log[j].res) < Len(Pristine(log[j].node).v)
     /\ log[j + 1].op = "to_list" /\ log[j + 1].node = log[j].node)
    => log[j + 1].st = "ok" /\ log[j + 1].res = Pristine(log[j].node).v

\* C3 (independent live traversals): when two traversals of the same node are
\* live at the same time and advanced in any interleaving, each yields the
\* node's complete sequence in order, as if it were the only traversal.
C3_IndependentTraversals ==
  (log = <<>> /\ Len(live) = 2 /\ live[1].node = live[2].node)
  => \A t \in 1..2 :
       /\ IsPrefix(live[t].got, Pristine(live[t].node).v)
       /\ live[t].done => live[t].got = Pristine(live[t].node).v

\* ------------------------------------------------------------------ SpecOrder
\* A caller that orders a list of two-digit elements by one of their binary
\* digits and then calls then_by / then_by_descending on the ordered nodes it
\* holds.  Key 3 is the same for every element.
MaxKey == 3
OrderElems == 0..3
OrderLists == UNION {[1..k -> OrderElems] : k \in 0..MaxLen - 1}
OrderPlans ==
  {[NoPlan EXCEPT !.op = op, !.xs = xs, !.key = k] :
     op \in {"order_by", "order_by_descending"}, xs \in OrderLists, k \in 1..MaxKey - 1}

InitOrder == \E pl \in OrderPlans : Constructed(pl, New(pl))

NextOrder ==
  \E n \in 2..Len(heap.nodes), k \in 1..MaxKey, reverse \in BOOLEAN :
    ThenBy(n, k, reverse, MaxCalls)

SpecOrder == InitOrder /\ [][NextOrder]_vars

\* The directive chain the plan's order_by / order_by_descending gave the target.
PlanChain == <<OrderingDirection(plan.key, plan.op = "order_by_descending")>>

\* C4 (receiver immutability of ordered nodes): then_by and then_by_descending
\* leave the receiver unchanged: the chain of an ordered node o stays D after
\* a = o.then_by(k2), and b = o.then_by(k3) is ordered by D followed by k3 only.
C4_ReceiverUnchanged ==
  /\ heap.nodes[target].key_funcs = PlanChain
  /\ \A j \in 1..Len(log) :
       (log[j].op = "then_by" /\ log[j].node = target /\ log[j].st = "ok")
       => heap.nodes[log[j].res].data =
            sort_chain(plan.xs,
                       Append(PlanChain, OrderingDirection(log[j].arg[1], log[j].arg[2])), 2)

\* ------------------------------------------------------------------ SpecAll
\* A caller that makes complete traversals of its node and all(p) calls on
\* it, in any order.
MaxAllCalls == 3

NextAll ==
  \/ ToList(target, MaxAllCalls)
  \/ \E p \in Preds : All(target, p, MaxAllCalls)

SpecAll == InitCursor /\ [][NextAll]_vars

\* C5 (all(p) does not corrupt the node's cursor): after all(p) returns, true
\* or false, a following to_list() of the same node returns the same list, in
\* the same order, as a to_list() made before the call.
C5_AllKeepsCursor ==
  \A j \in 2..Len(log) - 1 :
    (/\ log[j].op = "all" /\ log[j].st = "ok"
     /\ log[j - 1].op = "to_list" /\ log[j + 1].op = "to_list")
    => log[j + 1].st = log[j - 1].st /\ log[j + 1].res = log[j - 1].res

\* ------------------------------------------------------------------ SpecSet
\* A caller that builds s.intersect(t, key) or s.except_(t, key) and makes
\* complete traversals of the node, of s and of t.
SetPlans ==
  {[NoPlan EXCEPT !.op = op, !.xs = xs, !.ys = ys, !.key = k] :
     op \in {"intersect", "except_"}, xs \in CursorLists, ys \in CursorLists,
     k \in KeySelectors}

InitSet == \E pl \in SetPlans : Constructed(pl, New(pl))

NextSet == \E n \in Held : ToList(n, MaxCalls)

SpecSet == InitSet /\ [][NextSet]_vars

\* C6 (set operators only read their second operand): after a complete
\* traversal of s.intersect(t, key) or s.except_(t, key), a traversal of t, and
\* of s, yields the same elements in the same order as before the node was
\* traversed.
C6_OperandsOnlyRead ==
  (Len(log) = 2 /\ log[1].node = target /\ log[1].st = "ok" /\ log[2].node # target)
  => log[2].st = "ok" /\ log[2].res = Pristine(log[2].node).v

\* ------------------------------------------------------------------ SpecGroupJoin
\* A caller that builds outer.group_join(inner, outer_key, inner_key) with the
\* default result selector, reads its rows (o, G) out of to_list(), and
\* traverses the groups G of the rows it has.
MaxGroupCalls == 3

GroupJoinPlans ==
  {[NoPlan EXCEPT !.op = "group_join", !.xs = xs, !.ys = ys, !.key = k, !.key2 = k2] :
     xs \in CursorLists, ys \in CursorLists, k \in KeySelectors, k2 \in KeySelectors}

\* The rows the caller got from the group_join node so far.
Rows ==
  UNION {{log[j].res[r] : r \in 1..Len(log[j].res)} :
           j \in {i \in 1..Len(log) : log[i].node = target /\ log[i].st = "ok"}}

InitGroupJoin == \E pl \in GroupJoinPlans : Constructed(pl, New(pl))

NextGroupJoin ==
  \/ ToList(target, 1)
  \/ \E row \in Rows : ToList(Deref(Snd(row)), MaxGroupCalls)

SpecGroupJoin == InitGroupJoin /\ [][NextGroupJoin]_vars

\* The inner elements whose inner key equals the outer key of o, in inner order.
Matching(o) ==
  LET Match(i) == KeyOf(plan.key2, i) = KeyOf(plan.key, o) IN SelectSeq(plan.ys, Match)

\* C7 (group_join group contents): the Grouping G emitted in the row of outer
\* element o contains exactly the inner elements i with inner_key(i) =
\* outer_key(o), in inner order, whenever G is traversed: also after the
\* group_join traversal moved on or finished.
C7_GroupContents ==
  \A j \in 1..Len(log) : \A row \in Rows :
    log[j].node = Deref(Snd(row))
    => log[j].st = "ok" /\ log[j].res = Matching(Fst(row))

\* ------------------------------------------------------------------ SpecPure
\* One operator applied to a list, and one call on the fresh node: its
\* complete traversal, its len() or its count().
PureKeys == 0..2
PurePlans ==
  {[NoPlan EXCEPT !.op = "skip_concat_take", !.xs = xs, !.n = n] :
     xs \in Lists, n \in 0..MaxLen}
  \cup {[NoPlan EXCEPT !.op = op, !.xs = xs, !.n = n] :
          op \in {"skip", "take"}, xs \in Lists, n \in 0..MaxLen + 1}
  \cup {[NoPlan EXCEPT !.op = "select_many", !.xs = xs, !.key = k] :
          xs \in Lists, k \in PureKeys}
  \cup {[NoPlan EXCEPT !.op = "skip_while", !.xs = xs, !.p = p] : xs \in Lists, p \in Preds}

InitPure == \E pl \in PurePlans : Constructed(pl, New(pl))

NextPure ==
  \/ ToList(target, 1)
  \/ LengthOf(target, 1)
  \/ Count(target, 1)

SpecPure == InitPure /\ [][NextPure]_vars

\* How often x occurs in xs.
Occurrences(xs, x) == Cardinality({k \in 1..Len(xs) : xs[k] = x})

IsPermutation(xs, ys) ==
  /\ Len(xs) = Len(ys)
  /\ \A k \in 1..Len(xs) : Occurrences(xs, xs[k]) = Occurrences(ys, xs[k])

\* C8: for every finite s and every n with 0 <= n <= length(s),
\* s.skip(n).concat(s.take(n)).to_list() is a permutation of s.to_list().
C8_SkipConcatTakePermutation ==
  (/\ plan.op = "skip_concat_take" /\ plan.n <= Len(plan.xs)
   /\ Len(log) = 1 /\ log[1].op = "to_list")
  => log[1].st = "ok" /\ IsPermutation(log[1].res, plan.xs)

RECURSIVE Flattened(_, _)
\* The number of elements of the collections selector key gives for xs.
Flattened(xs, key) ==
  IF xs = <<>> THEN 0 ELSE Len(SelectorOf(key, Head(xs))) + Flattened(Tail(xs), key)

\* C9 (length agrees with traversal): len(node) equals the number of elements
\* a complete traversal yields and equals count(); length(s.take(n)) =
\* min(n, L), length(s.skip(n)) = L - min(n, L), and length(s.select_many(f))
\* is the total number of flattened elements.
C9_LengthAgrees ==
  (Len(log) = 1 /\ log[1].op = "len")
  => /\ log[1].st = "ok"
     /\ log[1].res = Len(Pristine(target).v)
     /\ log[1].res = count(New(plan).m, target).v
     /\ plan.op = "take" => log[1].res = Min2(plan.n, Len(plan.xs))
     /\ plan.op = "skip" => log[1].res = Len(plan.xs) - Min2(plan.n, Len(plan.xs))
     /\ plan.op = "select_many" => log[1].res = Flattened(plan.xs, plan.key)

\* The positions of xs whose element fails predicate p.
Failing(xs, p) == {k \in 1..Len(xs) : xs[k] \notin p}

\* The suffix of xs from its first element that fails p; empty when none does.
SuffixFromFirstFailing(xs, p) ==
  IF Failing(xs, p) = {} THEN <<>>
  ELSE SubSeq(xs, CHOOSE k \in Failing(xs, p) : \A j \in Failing(xs, p) : k <= j, Len(xs))

\* C10: skip_while(p) yields exactly the suffix of the upstream sequence that
\* starts at the first element for which p fails, through the last upstream
\* element: for every position of the first failing element, position 0 and
\* a one-element sequence included.
C10_SkipWhileSuffix ==
  (plan.op = "skip_while" /\ Len(log) = 1 /\ log[1].op = "to_list")
  => log[1].st = "ok" /\ log[1].res = SuffixFromFirstFailing(plan.xs, plan.p)

\* ------------------------------------------------------------------ SpecTakeWhile
\* The caller is stuck in a call that never returns.
Stuck == \E j \in 1..Len(log) : log[j].st = "Hang"

\* The caller makes the call r and the log keeps its outcome: what it
\* returned, what it raised, or that it never returns.  A caller inside a call
\* that never returns makes no further call.
Outcome(op, n, arg, r, max) ==
  /\ Len(log) < max
  /\ ~Stuck
  /\ heap' = IF r.st = "Hang" THEN heap ELSE Collect(r.m, LiveIts(live))
  /\ log' = Append(log, Call(op, n, arg, r))
  /\ UNCHANGED <<plan, target, live>>

\* node.to_list(), whatever its outcome
ToListCall(n, max) == Outcome("to_list", n, 0, to_list(heap, n), max)

\* node.count(), whatever its outcome
CountCall(n, max) == Outcome("count", n, 0, count(heap, n), max)

\* take_while over a list, and one call on the fresh node.
TakeWhilePlans ==
  {[NoPlan EXCEPT !.op = "take_while", !.xs = xs, !.p = p] : xs \in Lists, p \in Preds}

InitTakeWhile == \E pl \in TakeWhilePlans : Constructed(pl, New(pl))

NextTakeWhile ==
  \/ ToListCall(target, 1)
  \/ CountCall(target, 1)

SpecTakeWhile == InitTakeWhile /\ [][NextTakeWhile]_vars

\* The longest prefix of xs whose elements all satisfy p.
LongestPrefix(xs, p) ==
  IF Failing(xs, p) = {} THEN xs
  ELSE SubSeq(xs, 1, (CHOOSE k \in Failing(xs, p) : \A j \in Failing(xs, p) : k <= j) - 1)

\* C11: take_while(p) yields exactly the longest prefix of the upstream
\* sequence whose elements all satisfy p and then stops: no element at or
\* after the first failing element is yielded, and when every element
\* satisfies p the result is the whole sequence, each element once.
C11_TakeWhilePrefix ==
  (plan.op = "take_while" /\ Len(log) = 1 /\ log[1].op = "to_list")
  => log[1].st = "ok" /\ log[1].res = LongestPrefix(plan.xs, plan.p)

\* ------------------------------------------------------------------ SpecSkipTake
\* The state after the caller tried to construct the nodes of plan pl, r being
\* what the construction returned or raised: a construction that raised
\* leaves no node to call (target = 0) and its exception in the log.
Attempted(pl, r) ==
  /\ heap = Collect(r.m, {})
  /\ plan = pl
  /\ target = IF r.st = "ok" THEN r.v ELSE 0
  /\ log = IF r.st = "ok" THEN <<>> ELSE <<Call("Construct", 0, 0, r)>>
  /\ live = <<>>

\* The construction returned a node.
Built == target # 0

\* skip(n) and take(n) over a list with n <= 0, and one call on the node.
SkipTakePlans ==
  {[NoPlan EXCEPT !.op = op, !.xs = xs, !.n = n] :
     op \in {"skip", "take"}, xs \in Lists, n \in -MaxLen..0}

InitSkipTake == \E pl \in SkipTakePlans : Attempted(pl, New(pl))

NextSkipTake ==
  \/ Built /\ ToListCall(target, 1)
  \/ Built /\ CountCall(target, 1)

SpecSkipTake == InitSkipTake /\ [][NextSkipTake]_vars

\* C12: for every integer n <= 0, negative n included, s.skip(n) yields the
\* unmodified sequence s and s.take(n) yields the empty sequence, and neither
\* constructing nor traversing these nodes raises an error.
C12_NonPositiveN ==
  (plan.op \in {"skip", "take"} /\ plan.n <= 0 /\ Len(log) = 1
     /\ log[1].op \in {"Construct", "to_list"})
  => /\ log[1].st = "ok"
     /\ log[1].res = IF plan.op = "skip" THEN plan.xs ELSE <<>>

\* ------------------------------------------------------------------ SpecElementAt
RECURSIVE ListsOver(_, _)
\* All lists over the values S of length at most n.
ListsOver(S, n) ==
  IF n = 0 THEN {<<>>}
  ELSE LET shorter == ListsOver(S, n - 1)
       IN shorter \cup {Append(l, x) : l \in {k \in shorter : Len(k) = n - 1}, x \in S}

\* node.element_at(index), whatever its outcome
ElementAtCall(n, index, max) ==
  Outcome("element_at", n, index, element_at(heap, n, index), max)

\* node.element_at_or_default(index), whatever its outcome
ElementAtOrDefaultCall(n, index, max) ==
  Outcome("element_at_or_default", n, index, element_at_or_default(heap, n, index), max)

\* A list whose elements may be None, and two indexed accesses with indices
\* from one before the first position to one past the longest list.
ElementAtPlans ==
  {[NoPlan EXCEPT !.op = "Enumerable", !.xs = xs] : xs \in ListsOver(Elems \cup {None}, MaxLen)}
Indices == -1..MaxLen

InitElementAt == \E pl \in ElementAtPlans : Constructed(pl, New(pl))

NextElementAt ==
  \/ \E index \in Indices : ElementAtCall(target, index, MaxCalls)
  \/ \E index \in Indices : ElementAtOrDefaultCall(target, index, MaxCalls)

SpecElementAt == InitElementAt /\ [][NextElementAt]_vars

\* index is a position of xs.
InRange(xs, index) == 0 <= index /\ index < Len(xs)

\* C13 (indexed access): for 0 <= n < length, element_at(n) returns the
\* element at zero-based position n, whatever its value (None included); for
\* n < 0 or n >= length, element_at(n) fails with IndexError and
\* element_at_or_default(n) returns None instead of failing; repeated calls
\* with the same n return the same result.
C13_IndexedAccess ==
  plan.op = "Enumerable" =>
    \A j \in 1..Len(log) :
      /\ (log[j].op = "element_at" /\ InRange(plan.xs, log[j].arg))
         => log[j].st = "ok" /\ log[j].res = plan.xs[log[j].arg + 1]
      /\ (log[j].op = "element_at" /\ ~InRange(plan.xs, log[j].arg))
         => log[j].st = "IndexError"
      /\ (log[j].op = "element_at_or_default" /\ ~InRange(plan.xs, log[j].arg))
         => log[j].st = "ok" /\ log[j].res = None
      /\ \A k \in 1..Len(log) :
           (log[k].op = log[j].op /\ log[k].arg = log[j].arg)
           => log[k].st = log[j].st /\ log[k].res = log[j].res

\* ------------------------------------------------------------------ SpecReverse
\* A node s (a list, or take(n), skip(n) or where(p) over a list), reversed
\* once or twice, and one call on the result.
ReverseSources ==
  {<<>>}
  \cup {<<Step(op, n)>> : op \in {"take", "skip"}, n \in 0..MaxLen}
  \cup {<<Step("where", p)>> : p \in Preds}
ReversePlans ==
  {[NoPlan EXCEPT !.op = "pipeline", !.xs = xs, !.steps = src \o rev] :
     xs \in Lists, src \in ReverseSources,
     rev \in {<<Step("reverse", 0)>>, <<Step("reverse", 0), Step("reverse", 0)>>}}

InitReverse == \E pl \in ReversePlans : Attempted(pl, New(pl))

NextReverse ==
  \/ Built /\ ToListCall(target, 1)
  \/ Built /\ CountCall(target, 1)

SpecReverse == InitReverse /\ [][NextReverse]_vars

\* The plan of the node s that pl reverses: pl without its reverse() calls.
Reversed(pl) == [pl EXCEPT !.steps = SelectSeq(pl.steps, LAMBDA st : st.op # "reverse")]
\* How often pl reverses s.
Reversals(pl) == Len(pl.steps) - Len(Reversed(pl).steps)
\* s.to_list() on a fresh s.
SourceList(pl) == to_list(New(Reversed(pl)).m, New(Reversed(pl)).v).v

\* C14 (reverse round trip): for a finite node s (a base sequence, or
\* s0.take(n), s0.skip(n), s0.where(p)), s.reverse() yields s's traversal in
\* reverse positional order, and s.reverse().reverse().to_list() =
\* s.to_list().
C14_ReverseRoundTrip ==
  (plan.op = "pipeline" /\ Reversals(plan) > 0 /\ Len(log) = 1
     /\ log[1].op \in {"Construct", "to_list"})
  => /\ log[1].st = "ok"
     /\ log[1].res = IF Reversals(plan) = 1 THEN Reverse(SourceList(plan))
                     ELSE SourceList(plan)

\* ------------------------------------------------------------------ SpecOneShot
\* len(node), whatever its outcome
LenCall(n, max) == Outcome("len", n, 0, len(heap, n), max)

\* Enumerable(g) for a generator g that yields xs, or Enumerable(it) for
\* another single-pass iterator such as iter(xs) or map(f, ...), and two
\* calls on the node.
OneShotPlans ==
  {[NoPlan EXCEPT !.op = op, !.xs = xs] : op \in {"from_generator", "from_iterator"}, xs \in Lists}

InitOneShot == \E pl \in OneShotPlans : Attempted(pl, New(pl))

NextOneShot ==
  \/ Built /\ ToListCall(target, MaxCalls)
  \/ Built /\ LenCall(target, MaxCalls)
  \/ Built /\ CountCall(target, MaxCalls)

SpecOneShot == InitOneShot /\ [][NextOneShot]_vars

\* C15 (one-shot sources are materialized): a node constructed from a
\* generator or any other single-pass iterator holds the producer's elements
\* as a list from construction on, and len() and every traversal of the node
\* see all of the producer's elements in their original order.
C15_OneShotMaterialized ==
  plan.op \in {"from_generator", "from_iterator"} =>
    /\ Built /\ heap.nodes[target].data = plan.xs
    /\ \A j \in 1..Len(log) :
         /\ log[j].st = "ok"
         /\ log[j].op \in {"len", "count"} => log[j].res = Len(plan.xs)
         /\ log[j].op = "to_list" => log[j].res = plan.xs

\* ------------------------------------------------------------------ SpecSort
\* order_by / order_by_descending followed by a chain of up to MaxThenBy
\* then_by / then_by_descending calls, each on the node the call before
\* returned, and the traversal of the last node.
MaxThenBy == 2
ThenByChains ==
  UNION {[1..k -> {Step(op, key) : op \in {"then_by", "then_by_descending"}, key \in 1..MaxKey - 1}] :
           k \in 0..MaxThenBy}
SortLists == UNION {[1..k -> OrderElems] : k \in 0..MaxLen}
SortPlans ==
  {[NoPlan EXCEPT !.op = "pipeline", !.xs = xs, !.steps = <<Step(op, key)>> \o rest] :
     xs \in SortLists, op \in {"order_by", "order_by_descending"}, key \in 1..MaxKey,
     rest \in ThenByChains}

InitSort == \E pl \in SortPlans : Attempted(pl, New(pl))

NextSort == Built /\ ToListCall(target, 1)

SpecSort == InitSort /\ [][NextSort]_vars

\* The directives of an ordering plan, primary first.
Directives(pl) ==
  [k \in 1..Len(pl.steps) |->
     OrderingDirection(pl.steps[k].arg,
                       pl.steps[k].op \in {"order_by_descending", "then_by_descending"})]

\* The directives of ds on which x and y differ.
Deciding(ds, x, y) == {k \in 1..Len(ds) : KeyOf(ds[k].key, x) # KeyOf(ds[k].key, y)}

\* x and y are equal on all directives.
Tied(ds, x, y) == Deciding(ds, x, y) = {}

\* x sorts before y: the first directive on which they differ puts x first,
\* in its own direction.
SortsBefore(ds, x, y) ==
  /\ ~Tied(ds, x, y)
  /\ LET k == CHOOSE d \in Deciding(ds, x, y) : \A e \in Deciding(ds, x, y) : d <= e
     IN IF ds[k].descending THEN KeyOf(ds[k].key, x) > KeyOf(ds[k].key, y)
        ELSE KeyOf(ds[k].key, x) < KeyOf(ds[k].key, y)

\* The elements of xs tied with x, in their order in xs.
TiedWith(ds, xs, x) == SelectSeq(xs, LAMBDA y : Tied(ds, x, y))

\* C16 (ordering): the traversal of s.order_by/order_by_descending(k1)
\* followed by a chain of then_by/then_by_descending(k2..kn) is a permutation
\* of s in which the first directive decides, ties go to the next directive in
\* chain order, each directive in its own direction, and elements equal on
\* all directives keep their relative input order (also when descending).
C16_Ordering ==
  (plan.op = "pipeline" /\ Len(plan.steps) > 0
     /\ plan.steps[1].op \in {"order_by", "order_by_descending"}
     /\ Len(log) = 1 /\ log[1].op \in {"Construct", "to_list"})
  => /\ log[1].st = "ok"
     /\ IsPermutation(log[1].res, plan.xs)
     /\ \A i, j \in 1..Len(log[1].res) :
          i < j => ~SortsBefore(Directives(plan), log[1].res[j], log[1].res[i])
     /\ \A i \in 1..Len(plan.xs) :
          TiedWith(Directives(plan), log[1].res, plan.xs[i])
            = TiedWith(Directives(plan), plan.xs, plan.xs[i])

\* A three-directive chain with a descending tie-breaker, over a list that
\* has two different elements the chain ties and two that the primary
\* directive ties and the chain puts in the opposite order.
C16_Witness ==
  /\ plan.op = "pipeline" /\ Len(plan.steps) = 3
  /\ plan.steps[1].op = "order_by" /\ plan.steps[2].op = "then_by_descending"
  /\ Len(log) = 1 /\ log[1].op = "to_list" /\ log[1].st = "ok"
  /\ log[1].res # plan.xs
  /\ \E i, j \in 1..Len(plan.xs) :
       plan.xs[i] # plan.xs[j] /\ Tied(Directives(plan), plan.xs[i], plan.xs[j])
  /\ \E i, j \in 1..Len(plan.xs) :
       i < j /\ 1 \notin Deciding(Directives(plan), plan.xs[i], plan.xs[j])
         /\ SortsBefore(Directives(plan), plan.xs[j], plan.xs[i])

\* ------------------------------------------------------------------ SpecJoin
\* outer.join(inner, outer_key, inner_key) with the default result function
\* (the row of a pair is the pair), and one call on the fresh node.
JoinPlans ==
  {[NoPlan EXCEPT !.op = "join", !.xs = xs, !.ys = ys, !.key = k, !.key2 = k2] :
     xs \in OrderLists, ys \in OrderLists, k \in PureKeys, k2 \in PureKeys}

InitJoin == \E pl \in JoinPlans : Attempted(pl, New(pl))

NextJoin ==
  \/ Built /\ ToListCall(target, 1)
  \/ Built /\ CountCall(target, 1)

SpecJoin == InitJoin /\ [][NextJoin]_vars

\* The elements of ys that match outer element o, in the order of ys.
Matches(pl, o) == SelectSeq(pl.ys, LAMBDA i : KeyOf(pl.key2, i) = KeyOf(pl.key, o))

RECURSIVE JoinRows(_, _)
\* The pairs (o, i) of the outer elements xs with their matches, outer-major
\* and inner-minor.
JoinRows(pl, xs) ==
  IF xs = <<>> THEN <<>>
  ELSE [j \in 1..Len(Matches(pl, Head(xs))) |-> Tuple2(Head(xs), Matches(pl, Head(xs))[j])]
         \o JoinRows(pl, Tail(xs))

\* The number of matching pairs, by position.
MatchingPairs(pl) ==
  Cardinality({pq \in (1..Len(pl.xs)) \X (1..Len(pl.ys)) :
                 KeyOf(pl.key, pl.xs[pq[1]]) = KeyOf(pl.key2, pl.ys[pq[2]])})

\* C17 (inner join): the traversal of outer.join(inner, outer_key, inner_key)
\* is exactly the list of the pairs (o, i) with outer_key(o) = inner_key(i),
\* outer-major then inner-minor in source order; it has as many rows as there
\* are matching pairs: none for an outer element without match, k for one
\* with k matches.
C17_InnerJoin ==
  (plan.op = "join" /\ Len(log) = 1)
  => /\ log[1].st = "ok"
     /\ log[1].op = "to_list" =>
          /\ log[1].res = JoinRows(plan, plan.xs)
          /\ Len(log[1].res) = MatchingPairs(plan)
     /\ log[1].op = "count" => log[1].res = MatchingPairs(plan)

\* A traversed join under two different digit key selectors in which one
\* outer element has no match and another has two.
C17_Witness ==
  /\ plan.op = "join" /\ plan.key > 0 /\ plan.key2 > 0 /\ plan.key # plan.key2
  /\ Len(log) = 1 /\ log[1].op = "to_list" /\ log[1].st = "ok"
  /\ \E a, b \in 1..Len(plan.xs) :
       Len(Matches(plan, plan.xs[a])) = 0 /\ Len(Matches(plan, plan.xs[b])) = 2
  /\ Len(log[1].res) = 2

\* ------------------------------------------------------------------ SpecGroupBy
\* group_by under a key selector over a list, and calls on the node.
GroupByPlans ==
  {[NoPlan EXCEPT !.op = "group_by", !.xs = xs, !.key = k] : xs \in SortLists, k \in PureKeys}

InitGroupBy == \E pl \in GroupByPlans : Attempted(pl, New(pl))

NextGroupBy ==
  \/ Built /\ ToListCall(target, MaxCalls)
  \/ Built /\ CountCall(target, MaxCalls)

SpecGroupBy == InitGroupBy /\ [][NextGroupBy]_vars

RECURSIVE FirstSeen(_, _, _)
\* The distinct keys of xs in the order of their first occurrence, after seen.
FirstSeen(xs, key, seen) ==
  IF xs = <<>> THEN seen
  ELSE FirstSeen(Tail(xs), key,
                 IF \E p \in 1..Len(seen) : seen[p] = KeyOf(key, Head(xs)) THEN seen
                 ELSE Append(seen, KeyOf(key, Head(xs))))

\* The elements of xs whose key is kv, in source order.
WithKey(xs, key, kv) == SelectSeq(xs, LAMBDA x : KeyOf(key, x) = kv)

\* The traversal of the Grouping the reference r leads to.
GroupList(r) == to_list(heap, Deref(r))

RECURSIVE TotalSize(_)
\* The sizes of the Groupings rs, added up.
TotalSize(rs) == IF rs = <<>> THEN 0 ELSE Len(GroupList(Head(rs)).v) + TotalSize(Tail(rs))

\* C18 (group_by partitions the source): the traversal yields one Grouping
\* per distinct key value, in first-seen order of the keys; each Grouping
\* contains exactly the source elements whose projection equals its key, in
\* source order; every source element is in exactly one Grouping, so the
\* group sizes sum to the source length.
C18_GroupByPartition ==
  plan.op = "group_by" =>
    \A j \in 1..Len(log) :
      /\ log[j].st = "ok"
      /\ log[j].op = "count" => log[j].res = Len(FirstSeen(plan.xs, plan.key, <<>>))
      /\ log[j].op = "to_list" =>
           /\ Len(log[j].res) = Len(FirstSeen(plan.xs, plan.key, <<>>))
           /\ \A g \in 1..Len(log[j].res) :
                /\ heap.nodes[Deref(log[j].res[g])].kind = "Grouping"
                /\ heap.nodes[Deref(log[j].res[g])].gkey = FirstSeen(plan.xs, plan.key, <<>>)[g]
                /\ GroupList(log[j].res[g]).st = "ok"
                /\ GroupList(log[j].res[g]).v
                     = WithKey(plan.xs, plan.key, FirstSeen(plan.xs, plan.key, <<>>)[g])
           /\ TotalSize(log[j].res) = Len(plan.xs)

\* A traversed group_by under a digit key with two Groupings, the first of
\* which holds two different elements that are not neighbours in the source.
C18_Witness ==
  /\ plan.op = "group_by" /\ plan.key > 0
  /\ Len(log) = MaxCalls /\ log[MaxCalls].op = "to_list" /\ log[MaxCalls].st = "ok"
  /\ Len(log[MaxCalls].res) = 2
  /\ Len(plan.xs) = 3 /\ plan.xs[1] # plan.xs[3]
  /\ GroupList(log[MaxCalls].res[1]).v = <<plan.xs[1], plan.xs[3]>>

\* ------------------------------------------------------------------ SpecUnion
\* s.union(t, key) over two lists, and one call on the fresh node.
UnionPlans ==
  {[NoPlan EXCEPT !.op = "union", !.xs = xs, !.ys = ys, !.key = k] :
     xs \in OrderLists, ys \in OrderLists, k \in PureKeys}

InitUnion == \E pl \in UnionPlans : Attempted(pl, New(pl))

NextUnion ==
  \/ Built /\ ToListCall(target, 1)
  \/ Built /\ CountCall(target, 1)

SpecUnion == InitUnion /\ [][NextUnion]_vars

\* The distinct keys of self followed by other, in first-seen order.
UnionKeys(pl) == FirstSeen(pl.xs \o pl.ys, pl.key, <<>>)

\* C19: union(other, key) yields exactly one element per distinct key
\* occurring in self followed by other, in first-seen order of the keys, and
\* the element yielded for a key is the first element carrying it in that
\* concatenation (self's element when the key occurs in both).
C19_Union ==
  (plan.op = "union" /\ Len(log) = 1)
  => /\ log[1].st = "ok"
     /\ log[1].op = "count" => log[1].res = Len(UnionKeys(plan))
     /\ log[1].op = "to_list" =>
          /\ Len(log[1].res) = Len(UnionKeys(plan))
          /\ \A g \in 1..Len(log[1].res) :
               /\ KeyOf(plan.key, log[1].res[g]) = UnionKeys(plan)[g]
               /\ log[1].res[g] = Head(WithKey(plan.xs \o plan.ys, plan.key, UnionKeys(plan)[g]))

\* A traversed union under a digit key in which other has a different element
\* with a key of self, before an element with a new key.
C19_Witness ==
  /\ plan.op = "union" /\ plan.key > 0
  /\ Len(log) = 1 /\ log[1].op = "to_list" /\ log[1].st = "ok"
  /\ Len(plan.xs) = 1 /\ Len(plan.ys) = 2
  /\ plan.ys[1] # plan.xs[1] /\ KeyOf(plan.key, plan.ys[1]) = KeyOf(plan.key, plan.xs[1])
  /\ log[1].res = <<plan.xs[1], plan.ys[2]>>

\* ------------------------------------------------------------------ SpecIntersectExcept
\* s.intersect(t, key) (node 3) and s.except_(t, key) (node 4) over the same
\* two Enumerables, and traversals of the two nodes in any order.
IntersectExceptPlans ==
  {[NoPlan EXCEPT !.op = "intersect_except", !.xs = xs, !.ys = ys, !.key = k] :
     xs \in OrderLists, ys \in OrderLists, k \in PureKeys}

InitIntersectExcept == \E pl \in IntersectExceptPlans : Attempted(pl, New(pl))

NextIntersectExcept ==
  \/ Built /\ ToListCall(target - 1, MaxCalls)
  \/ Built /\ ToListCall(target, MaxCalls)

SpecIntersectExcept == InitIntersectExcept /\ [][NextIntersectExcept]_vars

\* The key of x occurs in ys.
KeyIn(pl, x) == \E q \in 1..Len(pl.ys) : KeyOf(pl.key, pl.ys[q]) = KeyOf(pl.key, x)

\* C20: intersect and except split self by key membership in other:
\* s.intersect(t, k) yields, in s's order and with s's multiplicity, exactly
\* the elements of s whose key occurs in t; s.except_(t, k) yields exactly
\* the remaining elements of s; so no key occurs in both results and every
\* element of s is in exactly one of them.
C20_IntersectExceptSplit ==
  plan.op = "intersect_except" =>
    \A j \in 1..Len(log) :
      /\ log[j].st = "ok"
      /\ log[j].node = target - 1
           => log[j].res = SelectSeq(plan.xs, LAMBDA x : KeyIn(plan, x))
      /\ log[j].node = target
           => log[j].res = SelectSeq(plan.xs, LAMBDA x : ~KeyIn(plan, x))
      /\ \A k \in 1..Len(log) :
           (log[j].node = target - 1 /\ log[k].node = target)
           => /\ \A a \in 1..Len(log[j].res), b \in 1..Len(log[k].res) :
                   KeyOf(plan.key, log[j].res[a]) # KeyOf(plan.key, log[k].res[b])
              /\ Len(log[j].res) + Len(log[k].res) = Len(plan.xs)
              /\ \A x \in OrderElems :
                   Occurrences(log[j].res, x) + Occurrences(log[k].res, x)
                     = Occurrences(plan.xs, x)

\* Both nodes traversed, the intersect node first, under a digit key, over an
\* s with one element of each result and a t that carries the matching key
\* twice, on elements other than s's.
C20_Witness ==
  /\ plan.op = "intersect_except" /\ plan.key > 0
  /\ Len(log) = 2 /\ log[1].node = target - 1 /\ log[2].node = target
  /\ log[1].st = "ok" /\ log[2].st = "ok"
  /\ Len(log[1].res) = 1 /\ Len(log[2].res) = 1
  /\ Len(plan.ys) = 2
  /\ \A q \in 1..2 : plan.ys[q] # log[1].res[1]
                      /\ KeyOf(plan.key, plan.ys[q]) = KeyOf(plan.key, log[1].res[1])

\* ------------------------------------------------------------------ SpecDistinct
\* s.distinct(key) over a list, and calls on the one node.
DistinctPlans ==
  {[NoPlan EXCEPT !.op = "distinct", !.xs = xs, !.key = k] : xs \in SortLists, k \in PureKeys}

InitDistinct == \E pl \in DistinctPlans : Attempted(pl, New(pl))

NextDistinct ==
  \/ Built /\ ToListCall(target, MaxCalls)
  \/ Built /\ CountCall(target, MaxCalls)

SpecDistinct == InitDistinct /\ [][NextDistinct]_vars

\* The distinct keys of the source of a distinct plan, in first-seen order.
DistinctKeys(pl) == FirstSeen(pl.xs, pl.key, <<>>)

\* C21: distinct(key) yields one element per distinct key of the source, the
\* first element seen with that key, in first-seen order of the keys;
\* count() is the number of distinct key values over the source; every
\* repetition of the traversal on the same node gives the same result.
C21_Distinct ==
  plan.op = "distinct" =>
    \A j \in 1..Len(log) :
      /\ log[j].st = "ok"
      /\ log[j].op = "count" => log[j].res = Cardinality({KeyOf(plan.key, plan.xs[i]) : i \in 1..Len(plan.xs)})
      /\ log[j].op = "to_list" =>
           /\ Len(log[j].res) = Len(DistinctKeys(plan))
           /\ \A g \in 1..Len(log[j].res) :
                log[j].res[g] = Head(WithKey(plan.xs, plan.key, DistinctKeys(plan)[g]))

\* A distinct node under a digit key, traversed twice, whose source carries
\* its first key on two different elements around an element of another key.
C21_Witness ==
  /\ plan.op = "distinct" /\ plan.key > 0
  /\ Len(plan.xs) = 3 /\ plan.xs[1] # plan.xs[3]
  /\ KeyOf(plan.key, plan.xs[1]) = KeyOf(plan.key, plan.xs[3])
  /\ KeyOf(plan.key, plan.xs[1]) # KeyOf(plan.key, plan.xs[2])
  /\ Len(log) = MaxCalls
  /\ \A j \in 1..MaxCalls : log[j].op = "to_list" /\ log[j].res = <<plan.xs[1], plan.xs[2]>>

\* ------------------------------------------------------------------ SpecGroupJoinRows
\* outer.group_join(inner, outer_key, inner_key) with the default result
\* selector: the caller counts the node, lists it, and walks it row by row.
GroupJoinRowPlans ==
  {[NoPlan EXCEPT !.op = "group_join", !.xs = xs, !.ys = ys, !.key = k, !.key2 = k2] :
     xs \in OrderLists, ys \in ListsOver(OrderElems, 1), k \in PureKeys, k2 \in PureKeys}

InitGroupJoinRows == \E pl \in GroupJoinRowPlans : Attempted(pl, New(pl))

\* node.to_list() or node.count(), whatever its outcome
ListOrCountCall(n, max) ==
  \E op \in {"to_list", "count"} : Outcome(op, n, 0, call(heap, op, n, 0), max)

NextGroupJoinRows ==
  \/ Built /\ ListOrCountCall(target, 1)
  \/ Built /\ Iterate(target, 1)
  \/ \E t \in 1..Len(live) : Advance(t)

SpecGroupJoinRows == InitGroupJoinRows /\ [][NextGroupJoinRows]_vars

\* The outer elements of the rows (o, G), in row order.
OuterOf(rows) == [g \in 1..Len(rows) |-> Fst(rows[g])]

\* rows are rows (o, G) with a Grouping G.
GroupRows(rows) == \A g \in 1..Len(rows) : heap.nodes[Deref(Snd(rows[g]))].kind = "Grouping"

MaxSplitCalls == 3

TakeSkipPlans ==
  {pl \in {[NoPlan EXCEPT !.op = "take_skip", !.xs = xs, !.n = n] :
             xs \in SortLists, n \in 0..MaxLen} : pl.n <= Len(pl.xs)}

InitTakeSkip == \E pl \in TakeSkipPlans : Attempted(pl, New(pl))

NextTakeSkip ==
  \/ Built /\ ToListCall(target - 1, MaxSplitCalls)
  \/ Built /\ ToListCall(target, MaxSplitCalls)
  \/ Built /\ ToListCall(1, MaxSplitCalls)

SpecTakeSkip == InitTakeSkip /\ [][NextTakeSkip]_vars

\* C23: for every finite sequence s and every n with 0 <= n <= length(s),
\* s.take(n).to_list() followed by s.skip(n).to_list() equals s.to_list(),
\* in whatever order the three lists are taken: take(n) lists the first n
\* elements of s and skip(n) the others.
C23_TakeSkipSplit ==
  plan.op = "take_skip" =>
    /\ \A j \in 1..Len(log) :
         /\ log[j].st = "ok"
         /\ log[j].node = 1 => log[j].res = plan.xs
         /\ log[j].node = target - 1 => log[j].res = SubSeq(plan.xs, 1, plan.n)
         /\ log[j].node = target => log[j].res = SubSeq(plan.xs, plan.n + 1, Len(plan.xs))
    /\ \A j, k, l \in 1..Len(log) :
         (log[j].node = target - 1 /\ log[k].node = target /\ log[l].node = 1)
         => log[j].res \o log[k].res = log[l].res

\* s of three elements, not all the same, cut after its first: take(1),
\* skip(1) and s were listed, in this order.
C23_Witness ==
  /\ plan.op = "take_skip" /\ plan.n = 1 /\ Len(plan.xs) = 3 /\ plan.xs[1] # plan.xs[2]
  /\ Len(log) = MaxSplitCalls
  /\ log[1].node = target - 1 /\ log[1].res = <<plan.xs[1]>>
  /\ log[2].node = target /\ log[2].res = <<plan.xs[2], plan.xs[3]>>
  /\ log[3].node = 1 /\ log[3].res = plan.xs

\* ------------------------------------------------------------------ SpecSingle
\* Enumerable(xs) over elements that may be None, and one single(...) or
\* single_or_default(...) call, with a predicate or without one.
\* node.single(func), whatever its outcome
SingleCall(n, func, max) == Outcome("single", n, func, single(heap, n, func), max)

\* node.single_or_default(func), whatever its outcome
SingleOrDefaultCall(n, func, max) ==
  Outcome("single_or_default", n, func, single_or_default(heap, n, func), max)

\* The element values of this section and the predicates over them; a missing
\* predicate is NoFunc.
NoneElems == Elems \cup {None}
NoneLists == ListsOver(NoneElems, MaxLen)
NonePreds == {Lambda(s) : s \in SUBSET NoneElems}

SinglePlans == {[NoPlan EXCEPT !.op = "Enumerable", !.xs = xs] : xs \in NoneLists}

InitSingle == \E pl \in SinglePlans : Attempted(pl, New(pl))

NextSingle ==
  \/ \E func \in NonePreds \cup {NoFunc} : Built /\ SingleCall(target, func, 1)
  \/ \E func \in NonePreds \cup {NoFunc} : Built /\ SingleOrDefaultCall(target, func, 1)

SpecSingle == InitSingle /\ [][NextSingle]_vars

\* The elements of xs that satisfy func, in order; all of them without a func.
Satisfying(xs, func) ==
  IF func = NoFunc THEN xs ELSE SelectSeq(xs, LAMBDA x : x \in func.s)

\* C24: single(p) fails with NoMatchingElement when no element satisfies p,
\* fails with MoreThanOneMatchingElement when more than one does, and returns
\* the unique matching element when exactly one does; single_or_default(p)
\* differs only in returning None where single raises NoMatchingElement.
C24_Single ==
  (plan.op = "Enumerable" /\ Len(log) = 1 /\ log[1].op \in {"single", "single_or_default"})
  => LET found == Satisfying(plan.xs, log[1].arg) IN
     /\ Len(found) = 0 =>
          IF log[1].op = "single" THEN log[1].st = "NoMatchingElement"
          ELSE log[1].st = "ok" /\ log[1].res = None
     /\ Len(found) = 1 => log[1].st = "ok" /\ log[1].res = found[1]
     /\ Len(found) > 1 => log[1].st = "MoreThanOneMatchingElement"

\* ------------------------------------------------------------------ SpecReducers
\* A node s (a list of integers, or take(n), skip(n) or where(p) over one) and
\* one call of min, max, avg, median, first, last, first_or_default or
\* last_or_default on it, each with its default arguments.
Reducers == {"min", "max", "avg", "median", "first", "last", "first_or_default",
             "last_or_default"}

\* node.op() for one of these methods, whatever its outcome
ReducerCall(op, n, max) == Outcome(op, n, 0, call(heap, op, n, NoFunc), max)

ReducerPlans ==
  {[NoPlan EXCEPT !.op = "pipeline", !.xs = xs, !.steps = src] :
     xs \in Lists, src \in ReverseSources}

InitReducers == \E pl \in ReducerPlans : Attempted(pl, New(pl))

NextReducers == \E op \in Reducers : Built /\ ReducerCall(op, target, 1)

SpecReducers == InitReducers /\ [][NextReducers]_vars

\* C25: on a sequence that yields no elements min, max, avg, median, first
\* and last fail with an error, and first_or_default and last_or_default
\* return None; on a sequence that yields an element none of the eight fails.
C25_Reducers ==
  (plan.op = "pipeline" /\ Len(log) = 1 /\ log[1].op \in Reducers)
  => IF Pristine(target).v = <<>>
     THEN IF log[1].op \in {"first_or_default", "last_or_default"}
          THEN log[1].st = "ok" /\ log[1].res = None
          ELSE log[1].st \notin {"ok", "Hang"}
     ELSE log[1].st = "ok"

\* ------------------------------------------------------------------ SpecAggregate
\* Enumerable(xs) over elements that may be None, and one aggregate(func) or
\* aggregate(func, seed) call.
Accumulators == 0..2
Seeds == Elems \cup {None}

\* node.aggregate(func, seed), whatever its outcome; seed = None is the call
\* without a seed.
AggregateCall(n, func, seed, max) ==
  Outcome("aggregate", n, <<func, seed>>, aggregate(heap, n, func, seed), max)

AggregatePlans == {[NoPlan EXCEPT !.op = "Enumerable", !.xs = xs] : xs \in NoneLists}

InitAggregate == \E pl \in AggregatePlans : Attempted(pl, New(pl))

NextAggregate ==
  \E func \in Accumulators, seed \in Seeds : Built /\ AggregateCall(target, func, seed, 1)

SpecAggregate == InitAggregate /\ [][NextAggregate]_vars

RECURSIVE LeftFold(_, _, _)
\* func(...func(func(acc, xs[1]), xs[2])..., xs[n]), or the error func raised.
LeftFold(func, acc, xs) ==
  IF xs = <<>> THEN Ok(EmptyHeap, acc)
  ELSE LET f == Apply(func, EmptyHeap, acc, Head(xs)) IN
       IF f.st # "ok" THEN f ELSE LeftFold(func, f.v, Tail(xs))

\* C26: aggregate(fn, seed) is a left fold.  With a seed the result is
\* fn(...fn(fn(seed, e0), e1)..., en-1); with no seed the first element is the
\* initial accumulator and fn is applied to the remaining elements in order,
\* so that a one-element sequence returns its element and fn is not called;
\* with no seed and no element the call fails with an error.
C26_Aggregate ==
  (plan.op = "Enumerable" /\ Len(log) = 1 /\ log[1].op = "aggregate")
  => LET func == log[1].arg[1]
         seed == log[1].arg[2]
         fold == IF seed # None THEN LeftFold(func, seed, plan.xs)
                 ELSE LeftFold(func, Head(plan.xs), Tail(plan.xs))
     IN IF seed = None /\ plan.xs = <<>> THEN log[1].st \notin {"ok", "Hang"}
        ELSE /\ log[1].st = fold.st
             /\ log[1].st = "ok" => log[1].res = fold.v

\* ------------------------------------------------------------------ SpecWhere
\* s.where(p) and s.where(p).where(q) over a list, and calls on the node:
\* its complete traversal, its count() and its len().
WherePlans ==
  {[NoPlan EXCEPT !.op = "pipeline", !.xs = xs, !.steps = <<Step("where", p)>>] :
     xs \in Lists, p \in Preds}
  \cup {[NoPlan EXCEPT !.op = "pipeline", !.xs = xs,
                       !.steps = <<Step("where", p), Step("where", q)>>] :
          xs \in Lists, p \in Preds, q \in Preds}

InitWhere == \E pl \in WherePlans : Attempted(pl, New(pl))

NextWhere ==
  \/ Built /\ ToListCall(target, MaxCalls)
  \/ Built /\ CountCall(target, MaxCalls)
  \/ Built /\ LenCall(target, MaxCalls)

SpecWhere == InitWhere /\ [][NextWhere]_vars

\* The elements of xs that satisfy the predicate of every where step, in the
\* order of xs and as often as they occur in xs.
Kept(xs, steps) == SelectSeq(xs, LAMBDA x : \A k \in 1..Len(steps) : x \in steps[k].arg)

TerminationPlans ==
  {[NoPlan EXCEPT !.op = op, !.xs = xs, !.p = p] :
     op \in {"skip_while", "take_while"}, xs \in Lists, p \in Preds}

InitTermination == \E pl \in TerminationPlans : Attempted(pl, New(pl))

NextTermination ==
  \/ Built /\ ToListCall(target, 1)
  \/ Built /\ CountCall(target, 1)
  \/ Built /\ LenCall(target, 1)

SpecTermination == InitTermination /\ [][NextTermination]_vars

\* C28 (termination on finite input): for every finite source s and every
\* predicate p, the traversal, count() and len() of s.skip_while(p) and of
\* s.take_while(p) return, and the traversal yields at most length(s)
\* elements, also when every element of s satisfies p.
C28_Terminates ==
  (plan.op \in {"skip_while", "take_while"} /\ Len(log) = 1)
  => /\ log[1].st # "Hang"
     /\ (log[1].st = "ok" /\ log[1].op = "to_list") => Len(log[1].res) <= Len(plan.xs)
     /\ (log[1].st = "ok" /\ log[1].op \in {"count", "len"}) => log[1].res <= Len(plan.xs)

\* ------------------------------------------------------------------ SpecAny
\* Enumerable(xs) over elements that may be None, and one any(...) call, with
\* a predicate or without one.
\* node.any(func), whatever its outcome
AnyCall(n, func, max) == Outcome("any", n, func, any(heap, n, func), max)

AnyPlans == {[NoPlan EXCEPT !.op = "Enumerable", !.xs = xs] : xs \in NoneLists}

InitAny == \E pl \in AnyPlans : Attempted(pl, New(pl))

NextAny == \E func \in NonePreds \cup {NoFunc} : Built /\ AnyCall(target, func, 1)

SpecAny == InitAny /\ [][NextAny]_vars

\* C29: any(p) returns true if and only if at least one element satisfies p,
\* and any() if and only if the sequence has an element, whatever the values
\* of the elements, None included.
C29_Any ==
  (plan.op = "Enumerable" /\ Len(log) = 1 /\ log[1].op = "any")
  => /\ log[1].st = "ok"
     /\ log[1].res = (Satisfying(plan.xs, log[1].arg) # <<>>)

====
